---- MODULE Spec2Model ----
(***************************************************************************)
(* Model of the lue reader's audio pipeline (src/lue/audio.py), of the     *)
(* controller that restarts it and of its display loops                    *)
(* (src/lue/reader.py, src/lue/ui.py), of the word timing functions       *)
(* (src/lue/timing_calculator.py) and of the text functions: the sentence  *)
(* splitter (src/lue/content_parser.py), the cleaning of text for speech   *)
(* (src/lue/audio.py) and the validation of saved progress                 *)
(* (src/lue/progress_manager.py).                                          *)
(*                                                                         *)
(* The program runs on one asyncio event loop: a task runs without         *)
(* interruption from one await to the next, so every action below is the   *)
(* code between two suspension points of one task.  Sleeps and timeouts    *)
(* carry no clock here: a sleeping task may resume at any later step, and  *)
(* a timeout on a blocked wait may fire whenever the wait is blocked.      *)
(* An ffplay process may exit at any step after it was started; the        *)
(* await_and_remove task that waits for it runs its cleanup without        *)
(* suspension, so the exit and the cleanup are one step.                   *)
(***************************************************************************)
EXTENDS Integers, Sequences, FiniteSets, TLC

VARIABLES
    chapters,                  \* reader.chapters, each paragraph already split into sentences
    tts_model,                 \* reader.tts_model is set and initialized
    is_paused,                 \* reader.is_paused
    playback_speed,            \* index of reader.playback_speed in speed_levels
    pos,                       \* (reader.chapter_idx, reader.paragraph_idx, reader.sentence_idx)
    command,                   \* reader.command, the single command slot
    ncmds,                     \* number of key presses so far
    nav_epoch,                 \* history: number of activations started when the last navigation was handled
    rtasks,                    \* the restart and pause-toggle tasks, in creation order
    pending_restart_task,      \* reader.pending_restart_task (index into rtasks, 0 = None)
    current_pause_toggle_task, \* reader.current_pause_toggle_task (index into rtasks, 0 = None)
    audio_restart_lock,        \* holder of reader.audio_restart_lock (0 = free)
    pause_toggle_lock,         \* holder of reader.pause_toggle_lock (0 = free)
    producer_task,             \* reader.producer_task (activation, 0 = None)
    player_task,               \* reader.player_task (activation, 0 = None)
    producers,                 \* the _producer_loop tasks, one per activation
    players,                   \* the _player_loop tasks, one per activation
    audio_queue,               \* reader.audio_queue
    files,                     \* which item's audio each buffer file holds
    procs,                     \* the ffplay processes that are alive
    playback_finished_event,   \* reader.playback_finished_event is set
    ui_pos,                    \* (reader.ui_chapter_idx, reader.ui_paragraph_idx, reader.ui_sentence_idx)
    word_pos,                  \* the sentence whose words, duration, start time, timings and mapping
                               \* are in reader.current_sentence_words .. current_word_mapping
    ui_word_idx,               \* reader.ui_word_idx
    auto_scroll_enabled,       \* reader.auto_scroll_enabled
    last_rendered_state,       \* reader.last_rendered_state: what the terminal shows
    calc                       \* a call of a pure function: its arguments and its result

vars == <<chapters, tts_model, is_paused, playback_speed, pos, command, ncmds,
          nav_epoch, rtasks, pending_restart_task, current_pause_toggle_task,
          audio_restart_lock, pause_toggle_lock, producer_task, player_task,
          producers, players, audio_queue, files, procs, playback_finished_event,
          ui_pos, word_pos, ui_word_idx, auto_scroll_enabled, last_rendered_state, calc>>

\* the state of the display
ui_vars == <<ui_pos, word_pos, ui_word_idx, auto_scroll_enabled, last_rendered_state>>

----------------------------------------------------------------------------
(* Program constants *)

NumBuffers == 6      \* len(config.AUDIO_BUFFERS)
MAX_QUEUE_SIZE == 4  \* config.MAX_QUEUE_SIZE
NumSpeedLevels == 7  \* len(speed_levels)

(* Bounds of the model *)

MaxCmds == 2         \* key presses in one behaviour

----------------------------------------------------------------------------
(* Books.  A paragraph is the list of its sentences as split_into_sentences *)
(* returns them; a sentence is "s" (speakable text), "f" (speakable text    *)
(* on which the TTS model can fail), "u" (speakable text for whose audio    *)
(* ffprobe reports no duration), "b" (blank) or "a" (nothing but an         *)
(* abbreviation with its period).                                           *)

NoPos == <<>>

ShortBook == << << <<"s">> >>, << <<"b">>, <<"s">> >> >>

LongBook == << << <<"s", "f", "s", "s">>, <<"s", "u", "s">> >> >>

NumSentences(ch, c, p) == Len(ch[c + 1][p + 1])

\* the loop of Lue._advance_position, from the state (c, p, s)
RECURSIVE AdvanceWalk(_, _, _, _, _)
AdvanceWalk(ch, c, p, s, mode) ==
    IF c < Len(ch)
    THEN IF p < Len(ch[c + 1])
         THEN IF s < NumSentences(ch, c, p)
              THEN <<c, p, IF mode = "paragraph" THEN 0 ELSE s>>
              ELSE AdvanceWalk(ch, c, p + 1, 0, mode)
         ELSE AdvanceWalk(ch, c + 1, 0, 0, mode)
    ELSE NoPos

\* an advance that stays inside the chapter of current_pos
AdvanceInChapter(ch, current_pos, mode, wrap) ==
    LET r == AdvanceWalk(<<ch[current_pos[1] + 1]>>, 0,
                         IF mode = "paragraph" THEN current_pos[2] + 1 ELSE current_pos[2],
                         IF mode = "paragraph" THEN 0 ELSE current_pos[3] + 1, mode)
    IN  IF r # NoPos THEN <<current_pos[1], r[2], r[3]>>
        ELSE IF wrap THEN <<0, 0, 0>> ELSE NoPos

_advance_position(ch, current_pos, mode, wrap) ==
    LET c == current_pos[1]
        p == IF mode = "paragraph" THEN current_pos[2] + 1 ELSE current_pos[2]
        s == IF mode = "paragraph" THEN 0 ELSE current_pos[3] + 1
        r == AdvanceWalk(ch, c, p, s, mode)
    IN  IF r # NoPos THEN r ELSE IF wrap THEN <<0, 0, 0>> ELSE NoPos

\* what _rewind_position gives when it indexes an empty chapter (IndexError)
IndexError == <<0 - 1>>

\* the loop of Lue._rewind_position, from the state (c, p, s), and the wrap
\* to the end of the book after it
RECURSIVE RewindWalk(_, _, _, _, _)
RewindWalk(ch, c, p, s, mode) ==
    LET \* c -= 1, then p and s of the last sentence of chapter c
        lastOf(d) ==
            IF d < 0 THEN RewindWalk(ch, d, p, s, mode)
            ELSE IF Len(ch[d + 1]) = 0 THEN IndexError
                 ELSE RewindWalk(ch, d, Len(ch[d + 1]) - 1,
                                 NumSentences(ch, d, Len(ch[d + 1]) - 1) - 1, mode)
    IN  IF c >= 0
        THEN IF p >= 0
             THEN IF s >= 0
                  THEN <<c, p, IF mode = "paragraph" THEN 0 ELSE s>>
                  ELSE IF p - 1 >= 0
                       THEN RewindWalk(ch, c, p - 1, NumSentences(ch, c, p - 1) - 1, mode)
                       ELSE IF c - 1 >= 0 THEN lastOf(c - 1)
                            ELSE RewindWalk(ch, c - 1, p - 1, s, mode)
             ELSE lastOf(c - 1)
        ELSE IF Len(ch) = 0 \/ Len(ch[Len(ch)]) = 0 THEN IndexError
             ELSE <<Len(ch) - 1, Len(ch[Len(ch)]) - 1,
                    NumSentences(ch, Len(ch) - 1, Len(ch[Len(ch)]) - 1) - 1>>

\* a rewind that lands on the last sentence of the paragraph it reaches
RewindToLastSentence(ch, current_pos, mode) ==
    RewindWalk(ch, current_pos[1], current_pos[2], 0 - 1, "sentence")

_rewind_position(ch, current_pos, mode) ==
    RewindWalk(ch, current_pos[1],
               IF mode = "paragraph" THEN current_pos[2] - 1 ELSE current_pos[2],
               IF mode = "paragraph" THEN 0 ELSE current_pos[3] - 1, mode)

\* sentences[s] in _producer_loop: "x" stands for the IndexError
SentenceAt(ch, q) ==
    IF /\ q[1] < Len(ch)
       /\ q[2] < Len(ch[q[1] + 1])
       /\ q[3] < NumSentences(ch, q[1], q[2])
    THEN ch[q[1] + 1][q[2] + 1][q[3] + 1]
    ELSE "x"

\* the blank-skipping loop at the top of _producer_loop: the position of the
\* next sentence to synthesize at or after q, NoPos when the loop breaks
RECURSIVE NextSpeakable(_, _)
NextSpeakable(ch, q) ==
    IF SentenceAt(ch, q) = "x" THEN NoPos
    ELSE IF SentenceAt(ch, q) = "b"
         THEN LET nx == _advance_position(ch, q, "sentence", FALSE)
              IN  IF nx = NoPos THEN NoPos ELSE NextSpeakable(ch, nx)
         ELSE q

----------------------------------------------------------------------------
(* Queue items, buffer files, processes *)

Sentinel(a) == [act |-> a, n |-> 0 - 1, pos |-> NoPos]
IsSentinel(item) == item.n < 0

NoFile == [act |-> 0, n |-> 0]
SlotOf(n) == n % NumBuffers

QueueFull == Len(audio_queue) >= MAX_QUEUE_SIZE

Activations == DOMAIN producers
ProducerDone(a) == producers[a].pc = "done"
PlayerDone(a) == players[a].pc = "done"

\* await_and_remove: the process has exited; its cleanup deletes the file
\* of its slot, whatever that file holds by now
Unlinked(fs, dead) ==
    [k \in DOMAIN fs |->
        IF \E p \in dead : p.watched /\ SlotOf(p.n) = k THEN NoFile ELSE fs[k]]

----------------------------------------------------------------------------
(* Initial states: run() has called play_from_current_position and enters *)
(* its command loop.                                                       *)

NoItem == [act |-> 0, n |-> 0 - 1, pos |-> NoPos]

NewProducer(start) == [pc |-> "top", pos |-> start, n |-> 0]
\* last, prev: the positions (c, p, s) of the item dequeued most recently and of
\* the one dequeued before it
NewPlayer == [pc |-> "get", cur |-> NoItem, posted |-> FALSE, waiting |-> {},
              last |-> NoPos, prev |-> NoPos]

\* a task that has finished: its locals are gone
DoneProducer == [pc |-> "done", pos |-> NoPos, n |-> 0]
DonePlayer == [pc |-> "done", cur |-> NoItem, posted |-> FALSE, waiting |-> {},
               last |-> NoPos, prev |-> NoPos]

\* reader.last_rendered_state before the first render
NoRender == [pos |-> NoPos, word |-> 0, paused |-> FALSE, speed |-> 0, auto |-> FALSE]

\* no pure function is being called
NoCall == [op |-> "none"]

InitReader(book, tts, paused) ==
    /\ chapters = book
    /\ tts_model = tts
    /\ is_paused = paused
    /\ playback_speed = 0
    /\ pos = <<0, 0, 0>>
    /\ command = [name |-> "none", pos |-> NoPos, act |-> 0]
    /\ ncmds = 0
    /\ nav_epoch = 0
    /\ rtasks = <<>>
    /\ pending_restart_task = 0
    /\ current_pause_toggle_task = 0
    /\ audio_restart_lock = 0
    /\ pause_toggle_lock = 0
    /\ producer_task = IF ~paused /\ tts THEN 1 ELSE 0
    /\ player_task = IF ~paused /\ tts THEN 1 ELSE 0
    /\ producers = IF ~paused /\ tts THEN <<NewProducer(<<0, 0, 0>>)>> ELSE <<>>
    /\ players = IF ~paused /\ tts THEN <<NewPlayer>> ELSE <<>>
    /\ audio_queue = <<>>
    /\ files = [k \in 0 .. NumBuffers - 1 |-> NoFile]
    /\ procs = {}
    /\ playback_finished_event = FALSE
    /\ ui_pos = <<0, 0, 0>>
    /\ word_pos = NoPos
    /\ ui_word_idx = 0
    /\ auto_scroll_enabled = TRUE
    /\ last_rendered_state = NoRender

InitWith(book, tts, paused) ==
    /\ InitReader(book, tts, paused)
    /\ calc = NoCall

\* Lue._initialize_progress: without a TTS model the reader starts paused
Init ==
    \E tts \in BOOLEAN, paused \in BOOLEAN :
        /\ ~tts => paused
        /\ InitWith(ShortBook, tts, paused)

ctl_vars == <<calc, ui_vars, chapters, tts_model, is_paused, playback_speed, pos, ncmds, nav_epoch,
              rtasks, pending_restart_task, current_pause_toggle_task,
              audio_restart_lock, pause_toggle_lock, producer_task, player_task>>

----------------------------------------------------------------------------
(* _producer_loop, one action per stretch between two awaits *)

\* top of the loop: wait while the queue is full, skip blank sentences,
\* break when the positions run out, else delete the slot's old file and
\* call the TTS model
ProducerTop(a) ==
    /\ producers[a].pc = "top"
    /\ ~QueueFull
    /\ LET q == NextSpeakable(chapters, producers[a].pos)
       IN  IF q = NoPos
           THEN /\ producers' = [producers EXCEPT ![a].pc = "fin"]
                /\ files' = files
           ELSE /\ producers' = [producers EXCEPT ![a].pc = "gen", ![a].pos = q]
                /\ files' = [files EXCEPT ![SlotOf(producers[a].n)] = NoFile]
    /\ UNCHANGED <<ctl_vars, command, players, audio_queue, procs, playback_finished_event>>

\* generate_audio returned: the slot's file holds this item's audio
SynthesisDone(a) ==
    /\ producers' = [producers EXCEPT ![a].pc = "put"]
    /\ files' = [files EXCEPT ![SlotOf(producers[a].n)] =
                    [act |-> a, n |-> producers[a].n]]

\* generate_audio raised: log, sleep(2)
SynthesisFailed(a) ==
    /\ SentenceAt(chapters, producers[a].pos) = "f"
    /\ producers' = [producers EXCEPT ![a].pc = "backoff"]
    /\ files' = files

ProducerGenerate(a) ==
    /\ producers[a].pc = "gen"
    /\ SynthesisDone(a) \/ SynthesisFailed(a)
    /\ UNCHANGED <<ctl_vars, command, players, audio_queue, procs, playback_finished_event>>

\* where the producer goes after the backoff sleep
AfterBackoff(r) == [r EXCEPT !.pc = "top"]

ProducerBackoff(a) ==
    /\ producers[a].pc = "backoff"
    /\ producers' = [producers EXCEPT ![a] = AfterBackoff(producers[a])]
    /\ UNCHANGED <<ctl_vars, command, players, audio_queue, files, procs,
                   playback_finished_event>>

\* the fragment merging of _producer_loop: the sentence at q is only an
\* abbreviation and is not the last of its paragraph
Merged(ch, q) == SentenceAt(ch, q) = "a" /\ q[3] + 1 < NumSentences(ch, q[1], q[2])

\* a producer that enqueues its item and stays where it is
PutWithoutAdvance(a) ==
    /\ producers[a].pc = "put"
    /\ audio_queue' = Append(audio_queue, [act |-> a, n |-> producers[a].n,
                                           pos |-> producers[a].pos])
    /\ producers' = [producers EXCEPT ![a].pc = "top", ![a].n = producers[a].n + 1]
    /\ UNCHANGED <<ctl_vars, command, players, files, procs, playback_finished_event>>

\* audio_queue.put with its 1.0 s timeout, then advance the position, twice
\* after a merge
ProducerPut(a) ==
    /\ producers[a].pc = "put"
    /\ IF QueueFull
       THEN /\ producers' = [producers EXCEPT ![a].pc = "backoff"]
            /\ audio_queue' = audio_queue
       ELSE LET r == producers[a]
                next_pos == _advance_position(chapters, r.pos, "sentence", FALSE)
                nx == IF Merged(chapters, r.pos) /\ next_pos # NoPos
                      THEN _advance_position(chapters, next_pos, "sentence", FALSE)
                      ELSE next_pos
            IN  /\ audio_queue' = Append(audio_queue,
                                         [act |-> a, n |-> r.n, pos |-> r.pos])
                /\ producers' = IF nx = NoPos
                                THEN [producers EXCEPT ![a].pc = "fin"]
                                ELSE [producers EXCEPT ![a].pc = "top", ![a].pos = nx,
                                                       ![a].n = r.n + 1]
    /\ UNCHANGED <<ctl_vars, command, players, files, procs, playback_finished_event>>

\* the finally block: put(None) with its 0.5 s timeout
PutSentinel(a) ==
    /\ producers' = [producers EXCEPT ![a] = DoneProducer]
    /\ audio_queue' = IF QueueFull THEN audio_queue ELSE Append(audio_queue, Sentinel(a))

ProducerFinally(a) ==
    /\ producers[a].pc = "fin"
    /\ PutSentinel(a)
    /\ UNCHANGED <<ctl_vars, command, players, files, procs, playback_finished_event>>

\* task.cancel() on a producer: CancelledError at its await
CancelProducer(r) ==
    IF r.pc = "done" THEN r
    ELSE IF r.pc = "fin"
         THEN IF QueueFull THEN DoneProducer ELSE r
         ELSE [r EXCEPT !.pc = "fin"]

----------------------------------------------------------------------------
(* _player_loop *)

ProcId(p) == [act |-> p.act, n |-> p.n]
ActiveTasks == {ProcId(p) : p \in {x \in procs : x.watched}}

SentenceStarted(item, a) == [name |-> "_new_sentence_started", pos |-> item.pos, act |-> a]

\* a player that leaves the command slot alone at this point
PostLater(item, a) == command

\* loop.call_soon_threadsafe(reader._post_command_sync, ...) in the player
PostSentenceStarted(item, a) == SentenceStarted(item, a)

\* get_audio_duration gave a positive number for the audio of the sentence
\* at q; for a sentence "u" ffprobe fails and the item carries the duration None
PositiveDuration(ch, q) == SentenceAt(ch, q) # "u"

\* a player that plays whatever it dequeues
SkipsNothing(item) == FALSE

\* the two checks before the event is posted: os.path.exists(audio_file),
\* and duration is None or duration <= 0
Skipped(item) ==
    \/ files[SlotOf(item.n)] = NoFile
    \/ ~PositiveDuration(chapters, item.pos)

\* dequeue: the sentinel ends the loop, an item whose file is gone or whose
\* duration is missing is skipped, any other item is announced and then played
PlayerGet(a) ==
    /\ players[a].pc = "get"
    /\ audio_queue # <<>>
    /\ audio_queue' = Tail(audio_queue)
    /\ LET item == Head(audio_queue)
       IN  IF IsSentinel(item)
           THEN IF ActiveTasks # {}
                THEN /\ players' = [players EXCEPT ![a].pc = "gather",
                                                   ![a].waiting = ActiveTasks]
                     /\ UNCHANGED <<command, playback_finished_event>>
                ELSE /\ players' = [players EXCEPT ![a] = DonePlayer]
                     /\ playback_finished_event' = TRUE
                     /\ command' = command
           ELSE IF Skipped(item)
                THEN UNCHANGED <<players, command, playback_finished_event>>
                ELSE /\ command' = PostSentenceStarted(item, a)
                     /\ players' = [players EXCEPT
                                        ![a].pc = "spawn", ![a].cur = item,
                                        ![a].last = item.pos, ![a].prev = players[a].last,
                                        ![a].posted = (command' = SentenceStarted(item, a))]
                     /\ playback_finished_event' = playback_finished_event
    /\ UNCHANGED <<ctl_vars, producers, files, procs>>

\* create_subprocess_exec returned: track the process, start await_and_remove
PlayerSpawn(a) ==
    /\ players[a].pc = "spawn"
    /\ procs' = procs \cup {[act |-> players[a].cur.act, n |-> players[a].cur.n,
                             by |-> a, tracked |-> TRUE, watched |-> TRUE,
                             notified |-> players[a].posted]}
    /\ players' = [players EXCEPT ![a].pc = "sleep", ![a].cur = NoItem,
                                  ![a].posted = FALSE]
    /\ UNCHANGED <<ctl_vars, command, producers, audio_queue, files,
                   playback_finished_event>>

\* the sleep for duration / speed - overlap is over
PlayerSleep(a) ==
    /\ players[a].pc = "sleep"
    /\ players' = [players EXCEPT ![a].pc = "get"]
    /\ UNCHANGED <<ctl_vars, command, producers, audio_queue, files, procs,
                   playback_finished_event>>

\* after the sentinel: gather(*active_playback_tasks) returned
PlayerGather(a) ==
    /\ players[a].pc = "gather"
    /\ players[a].waiting \cap ActiveTasks = {}
    /\ players' = [players EXCEPT ![a] = DonePlayer]
    /\ playback_finished_event' = TRUE
    /\ UNCHANGED <<ctl_vars, command, producers, audio_queue, files, procs>>

\* an ffplay process exits; await_and_remove untracks it and deletes its file
ProcessExit(p) ==
    /\ p \in procs
    /\ procs' = procs \ {p}
    /\ files' = Unlinked(files, {p})
    /\ UNCHANGED <<ctl_vars, command, producers, players, audio_queue,
                   playback_finished_event>>

\* task.cancel() on a player.  A player waiting in gather has the awaited
\* await_and_remove tasks cancelled with it: they untrack their process and
\* delete its file while the process runs on.  The player's finally block
\* then terminates the processes that are still tracked.
CancelledChildren(S) ==
    {p \in procs : /\ p.watched
                   /\ \E a \in S : players[a].pc = "gather" /\ ProcId(p) \in players[a].waiting}

Terminated(S) ==
    IF \E a \in S : players[a].pc # "done"
    THEN {p \in procs : p.tracked /\ p \notin CancelledChildren(S)}
    ELSE {}

ProcsAfterCancel(S) ==
    (procs \ (CancelledChildren(S) \cup Terminated(S)))
        \cup {[p EXCEPT !.tracked = FALSE, !.watched = FALSE] : p \in CancelledChildren(S)}

FilesAfterCancel(S) == Unlinked(files, CancelledChildren(S) \cup Terminated(S))

CancelPlayer(r) ==
    IF r.pc = "done" THEN r ELSE DonePlayer

PipelineStep ==
    \E a \in Activations :
        \/ ProducerTop(a)
        \/ ProducerGenerate(a)
        \/ ProducerBackoff(a)
        \/ ProducerPut(a)
        \/ ProducerFinally(a)
        \/ PlayerGet(a)
        \/ PlayerSpawn(a)
        \/ PlayerSleep(a)
        \/ PlayerGather(a)

ProcessStep == \E p \in procs : ProcessExit(p)

----------------------------------------------------------------------------
(* Keys and the command loop of Lue.run *)

NoCommand == [name |-> "none", pos |-> NoPos, act |-> 0]
Keys == {"next_sentence", "pause", "increase_speed"}

\* process_input: call_soon_threadsafe(reader._post_command_sync, cmd);
\* _post_command stores the command in the single slot reader.command
_post_command(cmd) == cmd

PressKey(k) ==
    /\ ncmds' = ncmds + 1
    /\ command' = _post_command([name |-> k, pos |-> NoPos, act |-> 0])
    /\ UNCHANGED <<calc, ui_vars, chapters, tts_model, is_paused, playback_speed, pos, nav_epoch, rtasks,
                   pending_restart_task, current_pause_toggle_task, audio_restart_lock,
                   pause_toggle_lock, producer_task, player_task, producers, players,
                   audio_queue, files, procs, playback_finished_event>>

KeyPress(k) ==
    /\ ncmds < MaxCmds
    /\ PressKey(k)

NewTask(kind) == [kind |-> kind, pc |-> "start", waiting |-> {}]

\* the _new_sentence_started branch: the position of the event becomes
\* the reading position
ApplySentenceStarted(cmd) == cmd.pos

\* one iteration of the loop: take the command out of the slot and handle it
MainLoop ==
    /\ command.name # "none"
    /\ command' = NoCommand
    /\ CASE command.name = "_new_sentence_started" ->
              /\ pos' = ApplySentenceStarted(command)
              /\ word_pos' = command.pos
              /\ ui_word_idx' = 0
              /\ UNCHANGED <<is_paused, playback_speed, nav_epoch, rtasks,
                             pending_restart_task, current_pause_toggle_task,
                             ui_pos, auto_scroll_enabled>>
         [] command.name = "pause" ->
              IF ~tts_model
              THEN UNCHANGED <<pos, is_paused, playback_speed, nav_epoch, rtasks,
                               pending_restart_task, current_pause_toggle_task,
                               ui_pos, word_pos, ui_word_idx, auto_scroll_enabled>>
              ELSE /\ is_paused' = ~is_paused
                   /\ rtasks' = Append(rtasks, NewTask("pause"))
                   /\ current_pause_toggle_task' = Len(rtasks) + 1
                   /\ UNCHANGED <<pos, playback_speed, nav_epoch, pending_restart_task,
                                  ui_pos, word_pos, ui_word_idx, auto_scroll_enabled>>
         [] command.name = "next_sentence" ->
              /\ pos' = _advance_position(chapters, pos, "sentence", TRUE)
              /\ ui_pos' = pos'
              /\ nav_epoch' = Len(producers)
              /\ rtasks' = Append(rtasks, NewTask("restart"))
              /\ pending_restart_task' = Len(rtasks) + 1
              /\ UNCHANGED <<is_paused, playback_speed, current_pause_toggle_task,
                             word_pos, ui_word_idx, auto_scroll_enabled>>
         [] command.name \in {"scroll_page_up", "scroll_page_down"} ->
              \* _handle_page_scroll_smooth / _handle_page_scroll_immediate
              /\ auto_scroll_enabled' = FALSE
              /\ UNCHANGED <<pos, is_paused, playback_speed, nav_epoch, rtasks,
                             pending_restart_task, current_pause_toggle_task,
                             ui_pos, word_pos, ui_word_idx>>
         [] command.name \in {"scroll_up", "wheel_scroll_up",
                              "scroll_down", "wheel_scroll_down"} ->
              \* _handle_scroll_up_smooth .. _handle_scroll_down_immediate: the
              \* reading position is assigned from the position on display
              /\ auto_scroll_enabled' = FALSE
              /\ pos' = ui_pos
              /\ UNCHANGED <<is_paused, playback_speed, nav_epoch, rtasks,
                             pending_restart_task, current_pause_toggle_task,
                             ui_pos, word_pos, ui_word_idx>>
         [] command.name = "toggle_auto_scroll" ->
              /\ auto_scroll_enabled' = ~auto_scroll_enabled
              /\ UNCHANGED <<pos, is_paused, playback_speed, nav_epoch, rtasks,
                             pending_restart_task, current_pause_toggle_task,
                             ui_pos, word_pos, ui_word_idx>>
         [] command.name = "increase_speed" ->
              IF playback_speed < NumSpeedLevels - 1
              THEN /\ playback_speed' = playback_speed + 1
                   /\ IF ~is_paused /\ tts_model
                      THEN /\ rtasks' = Append(rtasks, NewTask("restart"))
                           /\ pending_restart_task' = Len(rtasks) + 1
                      ELSE UNCHANGED <<rtasks, pending_restart_task>>
                   /\ UNCHANGED <<pos, is_paused, nav_epoch, current_pause_toggle_task,
                                  ui_pos, word_pos, ui_word_idx, auto_scroll_enabled>>
              ELSE UNCHANGED <<pos, is_paused, playback_speed, nav_epoch, rtasks,
                               pending_restart_task, current_pause_toggle_task,
                               ui_pos, word_pos, ui_word_idx, auto_scroll_enabled>>
    /\ UNCHANGED <<last_rendered_state, calc, chapters, tts_model, ncmds, audio_restart_lock, pause_toggle_lock,
                   producer_task, player_task, producers, players, audio_queue, files,
                   procs, playback_finished_event>>

----------------------------------------------------------------------------
(* _restart_audio_after_navigation and _handle_pause_toggle.  Both run     *)
(* stop_and_clear_audio and then play_from_current_position; the first     *)
(* under audio_restart_lock, the second under pause_toggle_lock.           *)

\* the lock a task of this kind takes
LockOf(kind) == IF kind = "restart" THEN "audio_restart_lock" ELSE "pause_toggle_lock"

Holder(lock) == IF lock = "audio_restart_lock" THEN audio_restart_lock ELSE pause_toggle_lock

\* async with <lock>: the lock is free and no earlier task waits for it;
\* then cancel the pending task of the same kind unless it is this task
RestartAcquire(t) ==
    /\ rtasks[t].pc = "start"
    /\ Holder(LockOf(rtasks[t].kind)) = 0
    /\ \A u \in 1 .. t - 1 :
           ~(LockOf(rtasks[u].kind) = LockOf(rtasks[t].kind) /\ rtasks[u].pc = "start")
    /\ LET pend == IF rtasks[t].kind = "restart" THEN pending_restart_task
                   ELSE current_pause_toggle_task
       IN  rtasks' = [u \in DOMAIN rtasks |->
                        IF u = t THEN [rtasks[u] EXCEPT !.pc = "stop"]
                        ELSE IF u = pend /\ rtasks[u].pc # "done"
                             THEN [rtasks[u] EXCEPT !.pc = "done"]
                             ELSE rtasks[u]]
    /\ audio_restart_lock' = IF LockOf(rtasks[t].kind) = "audio_restart_lock" THEN t
                             ELSE audio_restart_lock
    /\ pause_toggle_lock' = IF LockOf(rtasks[t].kind) = "pause_toggle_lock" THEN t
                            ELSE pause_toggle_lock
    /\ UNCHANGED <<calc, ui_vars, chapters, tts_model, is_paused, playback_speed, pos, command, ncmds,
                   nav_epoch, pending_restart_task, current_pause_toggle_task,
                   producer_task, player_task, producers, players, audio_queue, files,
                   procs, playback_finished_event>>

Released(lock, t) == IF lock = t THEN 0 ELSE lock

LiveProducer == IF producer_task # 0 /\ ~ProducerDone(producer_task) THEN {producer_task} ELSE {}
\* a stop that does not cancel the player task
PlayerKept == {}

LivePlayer == IF player_task # 0 /\ ~PlayerDone(player_task) THEN {player_task} ELSE {}

CancelTasks(SP, SL) ==
    /\ producers' = [a \in DOMAIN producers |->
                        IF a \in SP THEN CancelProducer(producers[a]) ELSE producers[a]]
    /\ players' = [a \in DOMAIN players |->
                        IF a \in SL THEN CancelPlayer(players[a]) ELSE players[a]]

\* stop_and_clear_audio after the gather: forget the tasks, terminate and
\* await the tracked processes
StopKill(ps, fs) ==
    /\ producer_task' = 0
    /\ player_task' = 0
    /\ procs' = {p \in ps : ~p.tracked}
    /\ files' = Unlinked(fs, {p \in ps : p.tracked})

\* stop_and_clear_audio up to its first await
StopBegin(t) ==
    /\ rtasks[t].pc = "stop"
    /\ CancelTasks(LiveProducer, LivePlayer)
    /\ IF LiveProducer \cup LivePlayer # {}
       THEN /\ rtasks' = [rtasks EXCEPT ![t].pc = "gather",
                                        ![t].waiting = LiveProducer \cup LivePlayer]
            /\ procs' = ProcsAfterCancel(LivePlayer)
            /\ files' = FilesAfterCancel(LivePlayer)
            /\ UNCHANGED <<producer_task, player_task>>
       ELSE /\ rtasks' = [rtasks EXCEPT ![t].pc = "pkill"]
            /\ StopKill(procs, files)
    /\ UNCHANGED <<calc, ui_vars, chapters, tts_model, is_paused, playback_speed, pos, command, ncmds,
                   nav_epoch, pending_restart_task, current_pause_toggle_task,
                   audio_restart_lock, pause_toggle_lock, audio_queue,
                   playback_finished_event>>

\* asyncio.gather(*tasks_to_cancel) returned
StopGathered(t) ==
    /\ rtasks[t].pc = "gather"
    /\ \A a \in rtasks[t].waiting : ProducerDone(a) /\ PlayerDone(a)
    /\ rtasks' = [rtasks EXCEPT ![t].pc = "pkill", ![t].waiting = {}]
    /\ StopKill(procs, files)
    /\ UNCHANGED <<calc, ui_vars, chapters, tts_model, is_paused, playback_speed, pos, command, ncmds,
                   nav_epoch, pending_restart_task, current_pause_toggle_task,
                   audio_restart_lock, pause_toggle_lock, producers, players,
                   audio_queue, playback_finished_event>>

\* pkill -9 -f 'ffplay.*buffer_' has run; drain the queue
StopDrain(t) ==
    /\ rtasks[t].pc = "pkill"
    /\ rtasks' = [rtasks EXCEPT ![t].pc = "rmfiles"]
    /\ procs' = {}
    /\ files' = Unlinked(files, procs)
    /\ audio_queue' = <<>>
    /\ UNCHANGED <<calc, ui_vars, chapters, tts_model, is_paused, playback_speed, pos, command, ncmds,
                   nav_epoch, pending_restart_task, current_pause_toggle_task,
                   audio_restart_lock, pause_toggle_lock, producer_task, player_task,
                   producers, players, playback_finished_event>>

\* after sleep(0.1): remove every buffer file
StopRemoveFiles(t) ==
    /\ rtasks[t].pc = "rmfiles"
    /\ rtasks' = [rtasks EXCEPT ![t].pc = "stopped"]
    /\ files' = [k \in DOMAIN files |-> NoFile]
    /\ UNCHANGED <<calc, ui_vars, chapters, tts_model, is_paused, playback_speed, pos, command, ncmds,
                   nav_epoch, pending_restart_task, current_pause_toggle_task,
                   audio_restart_lock, pause_toggle_lock, producer_task, player_task,
                   producers, players, audio_queue, procs, playback_finished_event>>

\* play_from_current_position: the producer it cancelled has finished (or
\* there was none); cancel the player, forget both, sleep(0.05)
PlayForget(t) ==
    /\ CancelTasks({}, LivePlayer)
    /\ procs' = ProcsAfterCancel(LivePlayer)
    /\ files' = FilesAfterCancel(LivePlayer)
    /\ producer_task' = 0
    /\ player_task' = 0
    /\ rtasks' = [rtasks EXCEPT ![t].pc = "play_sleep", ![t].waiting = {}]
    /\ UNCHANGED <<audio_restart_lock, pause_toggle_lock>>

\* a play_from_current_position that does not look at is_paused or tts_model
RestartPlayUnguarded(t) ==
    /\ rtasks[t].pc = "stopped"
    /\ LiveProducer = {}
    /\ PlayForget(t)
    /\ UNCHANGED <<calc, ui_vars, chapters, tts_model, is_paused, playback_speed, pos, command, ncmds,
                   nav_epoch, pending_restart_task, current_pause_toggle_task,
                   audio_queue, playback_finished_event>>

\* stop_and_clear_audio has returned (and, after a navigation, the debounce
\* sleep is over): start playing unless paused or without TTS
RestartPlay(t) ==
    /\ rtasks[t].pc = "stopped"
    /\ IF ~is_paused /\ tts_model
       THEN IF LiveProducer # {}
            THEN /\ CancelTasks(LiveProducer, {})
                 /\ rtasks' = [rtasks EXCEPT ![t].pc = "play_wait",
                                             ![t].waiting = LiveProducer]
                 /\ UNCHANGED <<producer_task, player_task, procs, files,
                                audio_restart_lock, pause_toggle_lock>>
            ELSE PlayForget(t)
       ELSE /\ rtasks' = [rtasks EXCEPT ![t].pc = "done"]
            /\ audio_restart_lock' = Released(audio_restart_lock, t)
            /\ pause_toggle_lock' = Released(pause_toggle_lock, t)
            /\ UNCHANGED <<producer_task, player_task, producers, players, procs, files>>
    /\ UNCHANGED <<calc, ui_vars, chapters, tts_model, is_paused, playback_speed, pos, command, ncmds,
                   nav_epoch, pending_restart_task, current_pause_toggle_task,
                   audio_queue, playback_finished_event>>

\* wait_for(task, timeout=2.0) on the cancelled producer returned
PlayWaited(t) ==
    /\ rtasks[t].pc = "play_wait"
    /\ \A a \in rtasks[t].waiting : ProducerDone(a)
    /\ PlayForget(t)
    /\ UNCHANGED <<calc, ui_vars, chapters, tts_model, is_paused, playback_speed, pos, command, ncmds,
                   nav_epoch, pending_restart_task, current_pause_toggle_task,
                   audio_queue, playback_finished_event>>

\* after sleep(0.05): create the producer and the player task
PlayCreate(t) ==
    /\ rtasks[t].pc = "play_sleep"
    /\ producers' = Append(producers, NewProducer(pos))
    /\ players' = Append(players, NewPlayer)
    /\ producer_task' = Len(producers) + 1
    /\ player_task' = Len(players) + 1
    /\ rtasks' = [rtasks EXCEPT ![t].pc = "done"]
    /\ audio_restart_lock' = Released(audio_restart_lock, t)
    /\ pause_toggle_lock' = Released(pause_toggle_lock, t)
    /\ UNCHANGED <<calc, ui_vars, chapters, tts_model, is_paused, playback_speed, pos, command, ncmds,
                   nav_epoch, pending_restart_task, current_pause_toggle_task,
                   audio_queue, files, procs, playback_finished_event>>

RestartStep ==
    \E t \in DOMAIN rtasks :
        \/ RestartAcquire(t)
        \/ StopBegin(t)
        \/ StopGathered(t)
        \/ StopDrain(t)
        \/ StopRemoveFiles(t)
        \/ RestartPlay(t)
        \/ PlayWaited(t)
        \/ PlayCreate(t)

Next ==
    \/ \E k \in Keys : KeyPress(k)
    \/ MainLoop
    \/ RestartStep
    \/ PipelineStep
    \/ ProcessStep

Spec == Init /\ [][Next]_vars

\* the pipeline alone, on a book long enough for the buffer slots to wrap
InitLong == InitWith(LongBook, TRUE, FALSE)
NextLong == PipelineStep \/ ProcessStep \/ MainLoop
SpecLong == InitLong /\ [][NextLong]_vars

\* one session: the reader starts paused, the user moves to the next
\* sentence, resumes, and moves to the next sentence again
BurstKeys == <<"next_sentence", "pause", "next_sentence">>
InitBurst == InitWith(ShortBook, TRUE, TRUE)
BurstKeyPress == ncmds < Len(BurstKeys) /\ PressKey(BurstKeys[ncmds + 1])
NextBurst == BurstKeyPress \/ MainLoop \/ RestartStep \/ PipelineStep \/ ProcessStep
SpecBurst == InitBurst /\ [][NextBurst]_vars

----------------------------------------------------------------------------
(* The display: _ui_update_loop, _word_update_loop and ui.display_ui.  The  *)
(* word-highlight state of the reader (current_sentence_words, duration,   *)
(* start time, timings, mapping) is written in one piece by the             *)
(* _new_sentence_started handler; word_pos is the sentence it was written  *)
(* for.  The clock is not modelled: a tick of _word_update_loop may find    *)
(* any word of the sentence to be the current one.                          *)

MaxWordIdx == 1      \* the last word index of a sentence
MaxUiCmds == 1       \* key presses in one behaviour of the display model

\* the tuple that display_ui compares with reader.last_rendered_state
current_state(up) ==
    [pos |-> up, word |-> ui_word_idx, paused |-> is_paused, speed |-> playback_speed,
     auto |-> auto_scroll_enabled]

\* one iteration of _ui_update_loop: follow the reading position, then render
UiUpdate ==
    /\ ui_pos' = IF ~is_paused /\ pos # ui_pos THEN pos ELSE ui_pos
    /\ last_rendered_state' = current_state(ui_pos')
    /\ UNCHANGED <<calc, chapters, tts_model, is_paused, playback_speed, pos, command, ncmds,
                   nav_epoch, rtasks, pending_restart_task, current_pause_toggle_task,
                   audio_restart_lock, pause_toggle_lock, producer_task, player_task,
                   producers, players, audio_queue, files, procs, playback_finished_event,
                   word_pos, ui_word_idx, auto_scroll_enabled>>

\* one iteration of _word_update_loop
WordTick ==
    /\ ~is_paused
    /\ word_pos # NoPos
    /\ \E w \in 0 .. MaxWordIdx : ui_word_idx' = w
    /\ UNCHANGED <<calc, chapters, tts_model, is_paused, playback_speed, pos, command, ncmds,
                   nav_epoch, rtasks, pending_restart_task, current_pause_toggle_task,
                   audio_restart_lock, pause_toggle_lock, producer_task, player_task,
                   producers, players, audio_queue, files, procs, playback_finished_event,
                   ui_pos, word_pos, auto_scroll_enabled, last_rendered_state>>

UiBook == << << <<"s", "s", "s">> >> >>
UiKeys == {"next_sentence", "toggle_auto_scroll", "scroll_up", "scroll_page_down"}

InitUi == InitWith(UiBook, TRUE, FALSE)

\* The command loop is woken as soon as a command is posted, and a player
\* sleeps at least 0.1 s between two items: a command that waits in the
\* slot is taken by the command loop, or overwritten by a key press, before
\* a player posts its next sentence-started event.
UiPipelineStep ==
    /\ PipelineStep
    /\ ~(command.name # "none" /\ command' # command)
UiKeyPress == ncmds < MaxUiCmds /\ \E k \in UiKeys : PressKey(k)
NextUi ==
    \/ UiKeyPress
    \/ MainLoop
    \/ RestartStep
    \/ UiPipelineStep
    \/ ProcessStep
    \/ UiUpdate
    \/ WordTick
SpecUi == InitUi /\ [][NextUi]_vars

----------------------------------------------------------------------------
(* timing_calculator.py.  A text is the list of its whitespace-separated   *)
(* tokens (text.split()), a token or word is a sequence of characters.     *)
(* Characters are ASCII letters ("a", "b", "c", "A"), ASCII punctuation    *)
(* ("-") or characters that are neither ("eacute", a non-ASCII letter).    *)
(* Times are integers in units of 1/80 s, so that 0.05 s, 0.1 s and 0.3 s  *)
(* and the halves of even times are exact.                                 *)

Unit == 80                \* time units per second
MinDuration == 4          \* 0.05 s
BackwardsDuration == 8    \* 0.1 s
FallbackPerWord == 24     \* 0.3 s

None == 0 - 999           \* Python's None where a time or a duration is expected
Str == 0 - 998            \* a string where a time is expected
IsNum(x) == x # None /\ x # Str

AsciiUpper ==
    <<"A", "B", "C", "D", "E", "F", "G", "H", "I", "J", "K", "L", "M", "N",
      "O", "P", "Q", "R", "S", "T", "U", "V", "W", "X", "Y", "Z">>
AsciiLower ==
    <<"a", "b", "c", "d", "e", "f", "g", "h", "i", "j", "k", "l", "m", "n",
      "o", "p", "q", "r", "s", "t", "u", "v", "w", "x", "y", "z">>
Digits == {"0", "1", "2", "3", "4", "5", "6", "7", "8", "9"}
Range(f) == {f[i] : i \in DOMAIN f}

AsciiAlnum == Range(AsciiUpper) \cup Range(AsciiLower) \cup Digits
Punctuation == {"-", ".", ",", ":", ";", "!", "?", "dq", "<", ">", "_"}
lower(ch) ==
    IF ch \in Range(AsciiUpper)
    THEN AsciiLower[CHOOSE i \in DOMAIN AsciiUpper : AsciiUpper[i] = ch]
    ELSE IF ch = "Eacute" THEN "eacute" ELSE ch

\* re.sub(r'[^a-zA-Z0-9]', '', word).lower()
_sanitize_word(word) ==
    LET kept == SelectSeq(word, LAMBDA ch : ch \in AsciiAlnum)
    IN  [i \in 1 .. Len(kept) |-> lower(kept[i])]

\* token.strip(string.punctuation)
RECURSIVE lstrip(_)
lstrip(w) == IF w # <<>> /\ Head(w) \in Punctuation THEN lstrip(Tail(w)) ELSE w

RECURSIVE rstrip(_)
rstrip(w) ==
    IF w # <<>> /\ w[Len(w)] \in Punctuation THEN rstrip(SubSeq(w, 1, Len(w) - 1)) ELSE w

strip(w) == rstrip(lstrip(w))

_get_highlightable_words(text) ==
    SelectSeq([i \in 1 .. Len(text) |-> strip(text[i])], LAMBDA cleaned : cleaned # <<>>)

\* ui._should_token_be_highlighted: re.search(r'[a-zA-Z0-9]', token)
_should_token_be_highlighted(token) == \E i \in 1 .. Len(token) : token[i] \in AsciiAlnum

\* Python's  sub in w  for strings
Contains(w, sub) ==
    \E i \in 0 .. Len(w) - Len(sub) : SubSeq(w, i + 1, i + Len(sub)) = sub

_words_similar(word1, word2) ==
    IF word1 = <<>> \/ word2 = <<>> THEN FALSE
    ELSE IF /\ Len(word1) >= 3 /\ Len(word2) >= 3
            /\ (Contains(word2, word1) \/ Contains(word1, word2))
         THEN TRUE
         ELSE /\ Len(word1) >= 4 /\ Len(word2) >= 4
              /\ SubSeq(word1, 1, 3) = SubSeq(word2, 1, 3)
              /\ Len(word1) - Len(word2) \in (0 - 2) .. 2

\* the match score of create_word_mapping; an empty TTS word is skipped
MatchScore(o, t) ==
    IF t = <<>> THEN 0
    ELSE IF o = t THEN 100
    ELSE IF Contains(t, o) THEN 80
    ELSE IF Contains(o, t) THEN 60
    ELSE IF _words_similar(o, t) THEN 40
    ELSE 0

\* a search loop that takes a later candidate of the same score
RECURSIVE LatestBestMatch(_, _, _, _, _, _)
LatestBestMatch(o, tts, search_idx, search_range, best_index, best_score) ==
    IF search_idx >= search_range THEN <<best_index, best_score>>
    ELSE LET score == MatchScore(o, tts[search_idx + 1])
         IN  IF score > 0 /\ score >= best_score
             THEN LatestBestMatch(o, tts, search_idx + 1, search_range, search_idx, score)
             ELSE LatestBestMatch(o, tts, search_idx + 1, search_range, best_index,
                                  best_score)

\* the search loop of create_word_mapping from search_idx on: <<best_match_index,
\* best_match_score>>, with best_match_index = None while there is no match
RECURSIVE BestMatch(_, _, _, _, _, _)
BestMatch(o, tts, search_idx, search_range, best_index, best_score) ==
    IF search_idx >= search_range THEN <<best_index, best_score>>
    ELSE LET score == MatchScore(o, tts[search_idx + 1])
         IN  IF score > best_score
             THEN IF score = 100 THEN <<search_idx, score>>
                  ELSE BestMatch(o, tts, search_idx + 1, search_range, search_idx, score)
             ELSE BestMatch(o, tts, search_idx + 1, search_range, best_index, best_score)

Max(a, b) == IF a > b THEN a ELSE b

\* the main loop of create_word_mapping from orig_index on
RECURSIVE MapWords(_, _, _, _, _)
MapWords(orig, tts, orig_index, tts_index, mapping) ==
    IF orig_index >= Len(orig) THEN mapping
    ELSE IF tts_index >= Len(tts)
         THEN MapWords(orig, tts, orig_index + 1, tts_index,
                       Append(mapping, Max(0, Len(tts) - 1)))
    ELSE IF orig[orig_index + 1] = <<>>
         THEN MapWords(orig, tts, orig_index + 1, tts_index,
                       Append(mapping, IF mapping # <<>> THEN mapping[Len(mapping)] ELSE 0))
    ELSE LET best == BestMatch(orig[orig_index + 1], tts, tts_index,
                               IF Len(tts) < tts_index + 5 THEN Len(tts)
                               ELSE tts_index + 5, None, 0)
         IN  IF best[1] = None \/ best[2] = 0
             THEN MapWords(orig, tts, orig_index + 1, tts_index + 1,
                           Append(mapping, tts_index))
             ELSE MapWords(orig, tts, orig_index + 1,
                           IF best[1] <= tts_index + 2 THEN best[1] + 1 ELSE tts_index,
                           Append(mapping, best[1]))

\* the value of a word_mapping that is None
NoMapping == <<None>>

\* an entry of a timing list: a tuple of n elements, (word, start, end) when n = 3
Timing(w, s, e) == [word |-> w, start |-> s, end |-> e, n |-> 3]

\* a mapping with one entry per TTS word instead of one per original word
MapTtsWords(original_words, tts_word_timings) ==
    [i \in 1 .. Len(tts_word_timings) |-> i - 1]

create_word_mapping(original_words, tts_word_timings) ==
    IF original_words = <<>> \/ tts_word_timings = <<>> THEN NoMapping
    ELSE LET orig_sanitized == [i \in 1 .. Len(original_words) |->
                                   _sanitize_word(original_words[i])]
             tts_sanitized == [i \in 1 .. Len(tts_word_timings) |->
                                  _sanitize_word(tts_word_timings[i].word)]
         IN  IF orig_sanitized = tts_sanitized
             THEN [i \in 1 .. Len(original_words) |-> i - 1]
             ELSE MapWords(orig_sanitized, tts_sanitized, 0, 0, <<>>)

\* the first pass of adjust_word_timings_for_continuity on one entry
CleanedTiming(e) ==
    IF e.start = None \/ e.end = None THEN e
    ELSE LET backwards == e.end < e.start
             s1 == IF backwards /\ ~(e.start > 0) THEN e.end ELSE e.start
             e1 == IF backwards THEN e.start + BackwardsDuration ELSE e.end
             e2 == IF e1 - s1 < MinDuration THEN s1 + MinDuration ELSE e1
         IN  Timing(e.word, s1, e2)

\* a second pass that leaves every entry as the first pass made it
KeepEnd(cleaned, i) == cleaned[i]

\* the second pass on entry i (from 1) of the cleaned list
AdjustedTiming(cleaned, i) ==
    LET e == cleaned[i]
    IN  IF e.start = None \/ e.end = None THEN e
        ELSE IF i < Len(cleaned) /\ cleaned[i + 1].start # None
             THEN LET next_start_time == cleaned[i + 1].start
                  IN  IF next_start_time > e.end
                      THEN Timing(e.word, e.start, next_start_time)
                      ELSE IF next_start_time < e.end
                           THEN Timing(e.word, e.start, (e.end + next_start_time) \div 2)
                           ELSE e
             ELSE e

adjust_word_timings_for_continuity(word_timings) ==
    IF Len(word_timings) <= 1 THEN word_timings
    ELSE LET cleaned == [i \in 1 .. Len(word_timings) |-> CleanedTiming(word_timings[i])]
         IN  [i \in 1 .. Len(cleaned) |-> AdjustedTiming(cleaned, i)]

\* adjust_word_timings_for_continuity raises: an entry that is no 3-tuple
\* cannot be unpacked, a string cannot be compared with or subtracted from
\* a number
AdjustRaises(word_timings) ==
    /\ Len(word_timings) >= 2
    /\ \E i \in 1 .. Len(word_timings) :
           LET e == word_timings[i]
           IN  \/ e.n # 3
               \/ e.start # None /\ e.end # None /\ (e.start = Str \/ e.end = Str)
               \/ /\ i < Len(word_timings)
                  /\ e.start # None /\ e.end # None
                  /\ word_timings[i + 1].start = Str

RECURSIVE MaxOf(_)
MaxOf(xs) == IF Len(xs) = 1 THEN xs[1] ELSE Max(xs[1], MaxOf(Tail(xs)))

\* max([end for _, _, end in word_timings])
calculate_speech_duration(word_timings) ==
    IF word_timings = <<>> THEN 0
    ELSE MaxOf([i \in 1 .. Len(word_timings) |-> word_timings[i].end])

\* calculate_speech_duration raises: an entry that is no 3-tuple, or max()
\* comparing None with anything or a string with a number
SpeechDurationRaises(word_timings) ==
    \/ \E i \in 1 .. Len(word_timings) : word_timings[i].n # 3
    \/ /\ Len(word_timings) >= 2
       /\ ~(\A i \in 1 .. Len(word_timings) : IsNum(word_timings[i].end))
       /\ ~(\A i \in 1 .. Len(word_timings) : word_timings[i].end = Str)

\* an estimate that gives every word the fallback of 0.3 s
EstimateFixed(text, total_duration) ==
    LET words == _get_highlightable_words(text)
    IN  [i \in 1 .. Len(words) |->
            Timing(words[i], (i - 1) * FallbackPerWord, i * FallbackPerWord)]

estimate_word_timings_from_duration(text, total_duration) ==
    LET words == _get_highlightable_words(text)
        duration == IF total_duration = None \/ total_duration <= 0
                    THEN Len(words) * FallbackPerWord
                    ELSE total_duration
    IN  IF words = <<>> THEN <<>>
        ELSE LET time_per_word == duration \div Len(words)
             IN  [i \in 1 .. Len(words) |->
                     Timing(words[i], (i - 1) * time_per_word, i * time_per_word)]

Bundle(wt, sd, td, wm) ==
    [raised |-> FALSE, word_timings |-> wt, speech_duration |-> sd, total_duration |-> td,
     word_mapping |-> wm]

\* the call ends with an exception instead of a bundle
Raised ==
    [raised |-> TRUE, word_timings |-> <<>>, speech_duration |-> 0, total_duration |-> 0,
     word_mapping |-> NoMapping]

\* the try block of process_tts_timing_data when nothing in it raises
TryBlock(original_text, raw_word_timings, total_duration) ==
    LET duration == IF raw_word_timings = <<>> /\ total_duration = None
                    THEN Len(original_text) * FallbackPerWord
                    ELSE total_duration
        word_timings == IF raw_word_timings = <<>>
                        THEN estimate_word_timings_from_duration(original_text, duration)
                        ELSE adjust_word_timings_for_continuity(raw_word_timings)
        speech_duration == IF raw_word_timings = <<>> THEN duration
                           ELSE calculate_speech_duration(word_timings)
    IN  Bundle(word_timings, speech_duration,
               IF duration # None THEN duration ELSE speech_duration,
               create_word_mapping(_get_highlightable_words(original_text), word_timings))

TryBlockRaises(raw_word_timings) ==
    /\ raw_word_timings # <<>>
    /\ \/ AdjustRaises(raw_word_timings)
       \/ SpeechDurationRaises(adjust_word_timings_for_continuity(raw_word_timings))

\* the except block of process_tts_timing_data
FallbackBundle(original_text) ==
    LET fallback_words == _get_highlightable_words(original_text)
        fallback_duration == Len(fallback_words) * FallbackPerWord
        fallback_timings == estimate_word_timings_from_duration(original_text, fallback_duration)
    IN  Bundle(fallback_timings, fallback_duration, fallback_duration,
               create_word_mapping(fallback_words, fallback_timings))

\* process_tts_timing_data without its except block
ProcessPropagating(original_text, raw_word_timings, total_duration) ==
    IF TryBlockRaises(raw_word_timings) THEN Raised
    ELSE TryBlock(original_text, raw_word_timings, total_duration)

process_tts_timing_data(original_text, raw_word_timings, total_duration) ==
    IF TryBlockRaises(raw_word_timings) THEN FallbackBundle(original_text)
    ELSE TryBlock(original_text, raw_word_timings, total_duration)

\* validate_timing_data on a bundle
validate_timing_data(timing_data) ==
    \A i \in 1 .. Len(timing_data.word_timings) :
        LET t == timing_data.word_timings[i]
        IN  /\ t.n = 3
            /\ t.start # Str
            /\ t.end # Str
            /\ (IsNum(t.start) /\ IsNum(t.end)) => (t.start >= 0 /\ t.end >= t.start)

----------------------------------------------------------------------------
(* Calls of the pure functions: the arguments are drawn in the initial     *)
(* state, one step makes the call and stores what it returns.              *)

MaxWords == 3        \* tokens of a text
MaxTts == 4          \* entries of a timing list whose words vary
MaxRaw == 3          \* entries of a timing list whose times vary

TextVocab == {<<"a", "b">>, <<"A", "-">>, <<"-">>, <<"eacute">>, <<"a", "b", "c", "a">>}
TtsVocab == {<<"a">>, <<"a", "b">>, <<"-">>, <<"a", "b", "c", "b">>}

\* timing lists as a TTS engine reports them for the words ws: 0.1 s per word
Reported(ws) ==
    [i \in 1 .. Len(ws) |-> Timing(ws[i], (i - 1) * BackwardsDuration, i * BackwardsDuration)]

TimeGrid == {0 - 4, 0, 2, 8, 12}
Durations == {None, 0 - 24, 0, 24, 48, 3 * Unit}

NumericTimings == {Timing(<<"a">>, s, e) : s \in TimeGrid, e \in TimeGrid}
\* entries with times of every kind, and a tuple of two elements
AnyTimings ==
    {Timing(<<"a">>, s, e) : s \in {0, 8, None, Str}, e \in {0, 8, None, Str}}
        \cup {[word |-> <<"a">>, start |-> 0, end |-> 0, n |-> 2]}

Books ==
    {ShortBook, LongBook,
     << << <<"s", "s">>, <<"s">> >>, << <<"s">> >>, << <<"s">>, <<"s", "s", "s">> >> >>}

\* the valid positions of a book
Positions(ch) ==
    UNION {UNION {{<<c, p, s>> : s \in 0 .. NumSentences(ch, c, p) - 1} :
                     p \in 0 .. Len(ch[c + 1]) - 1} :
              c \in 0 .. Len(ch) - 1}

AdvanceCalls ==
    UNION {{[op |-> "advance", done |-> FALSE, book |-> b, pos |-> q, mode |-> m,
             wrap |-> w, out |-> NoPos] :
                q \in Positions(b), m \in {"sentence", "paragraph"}, w \in BOOLEAN} :
              b \in Books}

RewindCalls ==
    UNION {{[op |-> "rewind", done |-> FALSE, book |-> b, pos |-> q, mode |-> m,
             out |-> NoPos] :
                q \in Positions(b), m \in {"sentence", "paragraph"}} :
              b \in Books}

ProcessCall(t, r, d) ==
    [op |-> "process", done |-> FALSE, text |-> t, raw |-> r, dur |-> d, out |-> Raised]

\* a continuity repair of a list of numeric timings
AdjustCalls ==
    \E k \in 0 .. MaxRaw : \E r \in [1 .. k -> NumericTimings] :
        calc = [op |-> "adjust", done |-> FALSE, raw |-> r, out |-> <<>>]

\* texts and word lists of every shape, reported without a duration; timing
\* lists with times of every kind for one text; no timing list at all
ProcessCalls ==
    \/ \E n \in 0 .. MaxWords, k \in 0 .. MaxTts :
           \E t \in [1 .. n -> TextVocab], ws \in [1 .. k -> TtsVocab] :
               calc = ProcessCall(t, Reported(ws), None)
    \/ \E k \in 0 .. MaxRaw : \E r \in [1 .. k -> AnyTimings] :
           calc = ProcessCall(<<<<"a">>, <<"-">>, <<"a", "b">>>>, r, None)
    \/ \E n \in 0 .. MaxWords : \E t \in [1 .. n -> TextVocab] :
           \E d \in Durations : calc = ProcessCall(t, <<>>, d)

reader_vars ==
    <<chapters, tts_model, is_paused, playback_speed, pos, command, ncmds, nav_epoch,
      rtasks, pending_restart_task, current_pause_toggle_task, audio_restart_lock,
      pause_toggle_lock, producer_task, player_task, producers, players, audio_queue,
      files, procs, playback_finished_event, ui_vars>>

CallAdvance ==
    /\ calc.op = "advance" /\ ~calc.done
    /\ calc' = [calc EXCEPT !.done = TRUE,
                            !.out = _advance_position(calc.book, calc.pos, calc.mode,
                                                      calc.wrap)]
    /\ UNCHANGED reader_vars

CallRewind ==
    /\ calc.op = "rewind" /\ ~calc.done
    /\ calc' = [calc EXCEPT !.done = TRUE,
                            !.out = _rewind_position(calc.book, calc.pos, calc.mode)]
    /\ UNCHANGED reader_vars

CallAdjust ==
    /\ calc.op = "adjust" /\ ~calc.done
    /\ calc' = [calc EXCEPT !.done = TRUE,
                            !.out = adjust_word_timings_for_continuity(calc.raw)]
    /\ UNCHANGED reader_vars

CallProcess ==
    /\ calc.op = "process" /\ ~calc.done
    /\ calc' = [calc EXCEPT !.done = TRUE,
                            !.out = process_tts_timing_data(calc.text, calc.raw, calc.dur)]
    /\ UNCHANGED reader_vars

InitFn ==
    /\ InitReader(ShortBook, FALSE, TRUE)
    /\ \/ calc \in AdvanceCalls
       \/ calc \in RewindCalls
       \/ AdjustCalls
       \/ ProcessCalls
NextFn == CallAdvance \/ CallRewind \/ CallAdjust \/ CallProcess
SpecFn == InitFn /\ [][NextFn]_vars

\* book b with a chapter of no paragraphs put after its chapter i; the first
\* chapter stays as it is, since run() returns at once when it is empty
WithEmptyChapter(b, i) == SubSeq(b, 1, i) \o << <<>> >> \o SubSeq(b, i + 1, Len(b))

SparseBooks == UNION {{WithEmptyChapter(b, i) : i \in 1 .. Len(b)} : b \in Books}

SparseCalls ==
    UNION {{[op |-> "advance", done |-> FALSE, book |-> b, pos |-> q, mode |-> m,
             wrap |-> w, out |-> NoPos] :
                q \in Positions(b), m \in {"sentence", "paragraph"}, w \in BOOLEAN}
             \cup {[op |-> "rewind", done |-> FALSE, book |-> b, pos |-> q, mode |-> m,
                    out |-> NoPos] :
                       q \in Positions(b), m \in {"sentence", "paragraph"}} :
              b \in SparseBooks}

InitSparse == InitReader(ShortBook, FALSE, TRUE) /\ calc \in SparseCalls
NextSparse == CallAdvance \/ CallRewind
SpecSparse == InitSparse /\ [][NextSparse]_vars

\* calls of create_word_mapping: lists of original words, and timing lists
\* long enough for a match to lie outside the search window
MaxOrig == 2         \* original words of a mapping call
MaxWindowed == 6     \* entries of the timing list of a mapping call

MapOrigVocab == {<<"a", "b">>, <<"A", "-">>, <<"-">>, <<"a", "b", "c", "a">>}
MapTtsVocab == {<<"a", "b">>, <<"c">>, <<"-">>, <<"a", "b", "c", "b">>}

MapCalls ==
    \E n \in 1 .. MaxOrig, k \in 1 .. MaxWindowed :
        \E ws \in [1 .. n -> MapOrigVocab], ts \in [1 .. k -> MapTtsVocab] :
            calc = [op |-> "map", done |-> FALSE, orig |-> ws, tts |-> Reported(ts),
                    out |-> NoMapping]

CallMap ==
    /\ calc.op = "map" /\ ~calc.done
    /\ calc' = [calc EXCEPT !.done = TRUE,
                            !.out = create_word_mapping(calc.orig, calc.tts)]
    /\ UNCHANGED reader_vars

InitMap == InitReader(ShortBook, FALSE, TRUE) /\ MapCalls
NextMap == CallMap
SpecMap == InitMap /\ [][NextMap]_vars

----------------------------------------------------------------------------
(* content_parser.split_into_sentences and audio.clean_tts_text.  A string  *)
(* is the sequence of its characters; "dq" is the double quote, "eacute"    *)
(* and "Eacute" are the letter e with an acute accent, and "<LUE_PERIOD>"   *)
(* is the twelve characters of the placeholder, which no pattern of these   *)
(* functions matches in part.                                               *)

\* \s and \w of Python's re on str
Whitespace == {" "}
WordChars == AsciiAlnum \cup {"_", "eacute", "Eacute"}

placeholder == "<LUE_PERIOD>"

abbreviations ==
    {<<"M", "r">>, <<"M", "r", "s">>, <<"M", "s">>, <<"D", "r">>,
     <<"P", "r", "o", "f">>, <<"R", "e", "v">>, <<"H", "o", "n">>,
     <<"J", "r">>, <<"S", "r">>, <<"C", "p", "l">>, <<"S", "g", "t">>,
     <<"G", "e", "n">>, <<"C", "o", "l">>, <<"C", "a", "p", "t">>,
     <<"L", "t">>, <<"P", "v", "t">>, <<"v", "s">>, <<"v", "i", "z">>,
     <<"e", "t", "c">>, <<"e", "g">>, <<"i", "e">>, <<"C", "o">>,
     <<"I", "n", "c">>, <<"L", "t", "d">>, <<"C", "o", "r", "p">>,
     <<"S", "t">>, <<"A", "v", "e">>, <<"B", "l", "v", "d">>}

\* the alternatives of audio.ABBREVIATION_PATTERN
AudioAbbreviations ==
    abbreviations \ {<<"e", "t", "c">>, <<"e", "g">>, <<"i", "e">>}

\* s1 + s2 + ... of a sequence of strings
RECURSIVE Concat(_)
Concat(ss) == IF ss = <<>> THEN <<>> ELSE Head(ss) \o Concat(Tail(ss))

\* the period text[i] is the end of a match of  \b(abbr1|abbr2|...)\.
AbbreviationPeriod(text, i, abbrs, ignorecase) ==
    /\ text[i] = "."
    /\ \E a \in abbrs :
           /\ i - Len(a) >= 1
           /\ \A n \in 1 .. Len(a) :
                  IF ignorecase THEN lower(text[i - Len(a) + n - 1]) = lower(a[n])
                  ELSE text[i - Len(a) + n - 1] = a[n]
           /\ i - Len(a) = 1 \/ text[i - Len(a) - 1] \notin WordChars

\* the period text[i] is the end of a match of  \b([A-Z])\.(?=\s[A-Z])
InitialPeriod(text, i) ==
    /\ text[i] = "."
    /\ i >= 2 /\ i + 2 <= Len(text)
    /\ text[i - 1] \in Range(AsciiUpper)
    /\ i = 2 \/ text[i - 2] \notin WordChars
    /\ text[i + 1] \in Whitespace
    /\ text[i + 2] \in Range(AsciiUpper)

\* a split that loses the punctuation mark it splits at
RECURSIVE SplitLosingDelimiter(_, _, _)
SplitLosingDelimiter(text, i, cur) ==
    IF i > Len(text) THEN <<cur>>
    ELSE IF text[i] \in {".", "!", "?"} /\ i < Len(text) /\ text[i + 1] \in Whitespace
         THEN <<cur>> \o SplitLosingDelimiter(text, i + 1, <<>>)
         ELSE SplitLosingDelimiter(text, i + 1, Append(cur, text[i]))

\* re.split(r'(?<=[.!?])\s+', text) from character i on, cur being the piece
\* read so far
RECURSIVE re_split(_, _, _)
re_split(text, i, cur) ==
    IF i > Len(text) THEN <<cur>>
    ELSE IF text[i] \in Whitespace /\ i > 1 /\ text[i - 1] \in {".", "!", "?"}
         THEN LET rest == {j \in i .. Len(text) : text[j] \notin Whitespace}
                  next == IF rest = {} THEN Len(text) + 1
                          ELSE CHOOSE j \in rest : \A k \in rest : j <= k
              IN  <<cur>> \o re_split(text, next, <<>>)
         ELSE re_split(text, i + 1, Append(cur, text[i]))

split_into_sentences(paragraph) ==
    LET abbrev == [i \in 1 .. Len(paragraph) |->
                      IF AbbreviationPeriod(paragraph, i, abbreviations, TRUE)
                      THEN placeholder ELSE paragraph[i]]
        initial == [i \in 1 .. Len(abbrev) |->
                       IF InitialPeriod(abbrev, i) THEN placeholder ELSE abbrev[i]]
        sentences == re_split(initial, 1, <<>>)
        nonempty == SelectSeq(sentences, LAMBDA sentence : sentence # <<>>)
        restored_sentences ==
            [k \in 1 .. Len(nonempty) |->
                [i \in 1 .. Len(nonempty[k]) |->
                    IF nonempty[k][i] = placeholder THEN "." ELSE nonempty[k][i]]]
    IN  IF restored_sentences # <<>> THEN restored_sentences ELSE <<initial>>

\* progress_manager.validate_and_set_progress; seq[i] of Python raises
\* IndexError unless -len(seq) <= i < len(seq), and counts a negative i from
\* the end
validate_and_set_progress(chs, c, p, s) ==
    LET inrange(seq, i) == 0 - Len(seq) <= i /\ i < Len(seq)
        at(seq, i) == IF i < 0 THEN seq[Len(seq) + i + 1] ELSE seq[i + 1]
    IN  IF ~inrange(chs, c) THEN <<0, 0, 0>>
        ELSE IF ~inrange(at(chs, c), p) THEN <<0, 0, 0>>
        ELSE IF ~inrange(re_split(at(at(chs, c), p), 1, <<>>), s) THEN <<0, 0, 0>>
        ELSE <<c, p, s>>

\* re.fullmatch(ABBREVIATION_PATTERN, text) in _producer_loop, for a
\* sentence without whitespace around it
is_abbrev_fragment(text) ==
    /\ text # <<>>
    /\ SubSeq(text, 1, Len(text) - 1) \in AudioAbbreviations
    /\ text[Len(text)] = "."

\* text[i] lies in a run of [.,:;!?] that has whitespace or an end of the
\* string on both sides: a match of  (?:^|\s)[.,:;!?]+(?=\s|$)
InLoosePunctuation(text, i) ==
    LET loose == {".", ",", ":", ";", "!", "?"}
        isrun(a, b) == \A j \in a .. b : text[j] \in loose
    IN  /\ text[i] \in loose
        /\ \E a \in 1 .. i :
               /\ isrun(a, i)
               /\ a = 1 \/ text[a - 1] \in Whitespace
        /\ \E b \in i .. Len(text) :
               /\ isrun(i, b)
               /\ b = Len(text) \/ text[b + 1] \in Whitespace

\* a cleaning that joins the words it should keep apart
DeleteWhitespace(text) == SelectSeq(text, LAMBDA ch : ch \notin Whitespace)

\* re.sub(r'\s+', ' ', text), and the strip() of the end of the string
RECURSIVE CollapseWhitespace(_)
CollapseWhitespace(text) ==
    IF text = <<>> THEN <<>>
    ELSE IF Head(text) \in Whitespace
         THEN IF Tail(text) = <<>> \/ Head(Tail(text)) \in Whitespace
              THEN CollapseWhitespace(Tail(text))
              ELSE <<" ">> \o CollapseWhitespace(Tail(text))
         ELSE <<Head(text)>> \o CollapseWhitespace(Tail(text))

clean_tts_text(text) ==
    LET \* re.sub(ABBREVIATION_PATTERN, r'\1', text)
        abbrev == Concat([i \in 1 .. Len(text) |->
                      IF AbbreviationPeriod(text, i, AudioAbbreviations, FALSE)
                      THEN <<>> ELSE <<text[i]>>])
        \* re.sub(INITIAL_PATTERN, r'\1 ', text)
        initial == [i \in 1 .. Len(abbrev) |->
                       IF InitialPeriod(abbrev, i) THEN " " ELSE abbrev[i]]
        \* the match, and so the ' ' that replaces it, begins at the
        \* whitespace before the run, or at the run at the start of the string
        loose == Concat([i \in 1 .. Len(initial) |->
                     IF InLoosePunctuation(initial, i)
                     THEN IF i = 1 THEN <<" ">> ELSE <<>>
                     ELSE <<initial[i]>>])
        \* re.sub(r'(?:^|\s)-(?=")', ' ', text)
        dash == Concat([i \in 1 .. Len(loose) |->
                    IF /\ loose[i] = "-"
                       /\ i = 1 \/ loose[i - 1] \in Whitespace
                       /\ i + 1 <= Len(loose) /\ loose[i + 1] = "dq"
                    THEN IF i = 1 THEN <<" ">> ELSE <<>>
                    ELSE <<loose[i]>>])
        collapsed == CollapseWhitespace(dash)
    IN  IF collapsed # <<>> /\ Head(collapsed) \in Whitespace THEN Tail(collapsed)
        ELSE collapsed

\* str.split(): the whitespace-delimited tokens of a string, cur being the
\* token read so far
RECURSIVE Tokens(_, _)
Tokens(text, cur) ==
    IF text = <<>> THEN IF cur = <<>> THEN <<>> ELSE <<cur>>
    ELSE IF Head(text) \in Whitespace
         THEN (IF cur = <<>> THEN <<>> ELSE <<cur>>) \o Tokens(Tail(text), <<>>)
         ELSE Tokens(Tail(text), Append(cur, Head(text)))

\* the scenario of the sentence splitter
MrSmith ==
    <<"M", "r", ".", " ", "S", "m", "i", "t", "h", " ", "w", "e", "n", "t",
      " ", "h", "o", "m", "e", ".", " ", "H", "e", " ", "w", "a", "s", " ",
      "t", "i", "r", "e", "d", ".">>

(* Calls of the text functions *)

MaxChars == 5

SplitChars == {"M", "r", "Eacute", ".", "!", " ", placeholder}
CleanChars == {"M", "r", ".", "!", " ", "-", "dq"}

SplitCall(text) == [op |-> "split", done |-> FALSE, text |-> text, out |-> <<>>]

CallSplit ==
    /\ calc.op = "split" /\ ~calc.done
    /\ calc' = [calc EXCEPT !.done = TRUE, !.out = split_into_sentences(calc.text)]
    /\ UNCHANGED reader_vars

\* cleans a text, and cleans the result again
CallClean ==
    /\ calc.op = "clean" /\ ~calc.done
    /\ calc' = [calc EXCEPT !.done = TRUE,
                            !.out = clean_tts_text(calc.text),
                            !.again = clean_tts_text(clean_tts_text(calc.text))]
    /\ UNCHANGED reader_vars

MaxIndex == 2
MaxParagraphs == 2

\* the paragraphs "Mr. r.", "r! r.", "r. " and "r"
Paragraphs ==
    {<<"M", "r", ".", " ", "r", ".">>, <<"r", "!", " ", "r", ".">>, <<"r", ".", " ">>,
     <<"r">>}

\* validates a saved position against a book of one or two chapters
CallValidate ==
    /\ calc.op = "validate" /\ ~calc.done
    /\ calc' = [calc EXCEPT !.done = TRUE,
                            !.out = validate_and_set_progress(calc.book, calc.c, calc.p,
                                                              calc.s)]
    /\ UNCHANGED reader_vars

InitText ==
    /\ InitReader(ShortBook, FALSE, TRUE)
    /\ \/ calc = SplitCall(MrSmith)
       \/ \E n \in 0 .. MaxChars : \E text \in [1 .. n -> SplitChars] :
              calc = SplitCall(text)
       \/ \E n \in 0 .. MaxChars : \E text \in [1 .. n -> CleanChars] :
              calc = [op |-> "clean", done |-> FALSE, text |-> text, out |-> <<>>,
                      again |-> <<>>]
       \/ \E n \in 1 .. MaxParagraphs : \E chapter \in [1 .. n -> Paragraphs] :
              \E book \in {<<chapter>>, <<chapter, chapter>>} :
                  \E c, p, s \in 0 - 1 .. MaxIndex :
                      calc = [op |-> "validate", done |-> FALSE, book |-> book,
                              c |-> c, p |-> p, s |-> s, out |-> NoPos]
NextText == CallSplit \/ CallClean \/ CallValidate
SpecText == InitText /\ [][NextText]_vars

----------------------------------------------------------------------------
(* The word-highlight clock.  The _new_sentence_started handler installs   *)
(* the words of the sentence and the timings the TTS layer made for its    *)
(* cleaned text; _word_update_loop then finds the word to highlight from   *)
(* the playback time that has passed, every 0.05 s.                         *)

TickPeriod == 4      \* 0.05 s, the sleep of _word_update_loop
MaxTicks == 7        \* iterations of _word_update_loop within one sentence

\* ' '.join(tokens)
RECURSIVE Join(_)
Join(tokens) ==
    IF tokens = <<>> THEN <<>>
    ELSE IF Len(tokens) = 1 THEN tokens[1]
    ELSE tokens[1] \o <<" ">> \o Join(Tail(tokens))

\* the text that _producer_loop hands to the TTS layer for a sentence, as
\* the tokens of clean_tts_text(text)
SpokenText(sentence) == Tokens(clean_tts_text(Join(sentence)), <<>>)

\* the word state that the _new_sentence_started handler writes for a
\* sentence, the duration of its audio and the timing bundle of the item
InstalledWords(sentence, duration, timing_info) ==
    [words |-> SelectSeq(sentence, _should_token_be_highlighted),
     duration |-> IF timing_info.speech_duration \notin {None, 0}
                  THEN timing_info.speech_duration ELSE duration,
     timings |-> timing_info.word_timings,
     mapping |-> IF timing_info.word_timings # <<>> THEN timing_info.word_mapping
                 ELSE NoMapping]

\* an iteration of _word_update_loop that ends in its except branch
Exception == Str

\* int(a / b): the quotient cut off toward zero (b is not 0)
Truncate(a, b) ==
    LET abs(x) == IF x < 0 THEN 0 - x ELSE x
    IN  IF (a < 0) = (b < 0) THEN abs(a) \div abs(b) ELSE 0 - (abs(a) \div abs(b))

\* the loop over current_word_timings from entry i on: the index of the
\* first entry with start_time <= adjusted_elapsed < end_time, None when
\* there is none
RECURSIVE FirstSpoken(_, _, _)
FirstSpoken(timings, adjusted_elapsed, i) ==
    IF i >= Len(timings) THEN None
    ELSE LET t == timings[i + 1]
         IN  IF t.n # 3 \/ ~IsNum(t.start) THEN Exception
             ELSE IF adjusted_elapsed >= t.start
                  THEN IF ~IsNum(t.end) THEN Exception
                       ELSE IF adjusted_elapsed < t.end THEN i
                            ELSE FirstSpoken(timings, adjusted_elapsed, i + 1)
                  ELSE FirstSpoken(timings, adjusted_elapsed, i + 1)

\* adjusted_elapsed >= max([end for _, _, end in current_word_timings])
PastAllWords(timings, adjusted_elapsed) ==
    IF \A i \in 1 .. Len(timings) : IsNum(timings[i].end)
    THEN IF adjusted_elapsed >= MaxOf([i \in 1 .. Len(timings) |-> timings[i].end])
         THEN 1 ELSE 0
    ELSE Exception

\* the original words that the mapping sends to the TTS word tts_word_idx
MappedOrigWords(mapping, tts_word_idx) ==
    SelectSeq([k \in 1 .. Len(mapping) |-> k - 1],
              LAMBDA orig_idx : mapping[orig_idx + 1] = tts_word_idx)

\* a clock that takes the first of the original words of a TTS word
FirstMappedWord(w, tts_word_idx, adjusted_elapsed) ==
    LET mapped_orig_words == MappedOrigWords(w.mapping, tts_word_idx)
    IN  IF mapped_orig_words # <<>> THEN mapped_orig_words[1]
        ELSE IF tts_word_idx < Len(w.words) - 1 THEN tts_word_idx ELSE Len(w.words) - 1

\* the original word for the TTS word tts_word_idx, with the time of a TTS
\* word shared evenly by the original words mapped to it
SubWord(w, tts_word_idx, adjusted_elapsed) ==
    LET mapped_orig_words == MappedOrigWords(w.mapping, tts_word_idx)
        n == Len(mapped_orig_words)
        t == w.timings[tts_word_idx + 1]
    IN  IF n = 0
        THEN IF tts_word_idx < Len(w.words) - 1 THEN tts_word_idx ELSE Len(w.words) - 1
        ELSE IF n = 1 THEN mapped_orig_words[1]
        ELSE IF ~IsNum(t.start) \/ ~IsNum(t.end) \/ t.end = t.start THEN Exception
        ELSE LET q == Truncate((adjusted_elapsed - t.start) * n, t.end - t.start)
                 sub_word_idx == IF q < n - 1 THEN q ELSE n - 1
             IN  IF sub_word_idx >= 0 THEN mapped_orig_words[sub_word_idx + 1]
                 ELSE IF sub_word_idx >= 0 - n THEN mapped_orig_words[n + sub_word_idx + 1]
                 ELSE Exception

\* the body of one iteration of _word_update_loop: current_word_idx for the
\* word state w after adjusted_elapsed of playback, or Exception
current_word_idx(w, adjusted_elapsed) ==
    LET total_words == Len(w.words)
        found == FirstSpoken(w.timings, adjusted_elapsed, 0)
        past == PastAllWords(w.timings, adjusted_elapsed)
    IN  IF w.timings # <<>>
        THEN IF found = Exception THEN Exception
             ELSE IF w.mapping # NoMapping /\ w.mapping # <<>>
             THEN IF found # None THEN SubWord(w, found, adjusted_elapsed)
                  ELSE IF past = Exception THEN Exception
                  ELSE IF past = 1
                       THEN SubWord(w, Len(w.timings) - 1, adjusted_elapsed)
                       ELSE 0
             ELSE IF found # None
                  THEN IF found < total_words - 1 THEN found ELSE total_words - 1
                  ELSE IF past = Exception THEN Exception
                  ELSE IF past = 1 THEN total_words - 1 ELSE 0
        ELSE LET q == Truncate(adjusted_elapsed * total_words, w.duration)
             IN  IF q < total_words - 1 THEN q ELSE total_words - 1

\* one iteration of _word_update_loop: the new reader.ui_word_idx
_word_update_loop(w, adjusted_elapsed, idx) ==
    IF w.words # <<>> /\ w.duration # None /\ w.duration > 0
    THEN IF current_word_idx(w, adjusted_elapsed) = Exception THEN idx
         ELSE current_word_idx(w, adjusted_elapsed)
    ELSE idx

\* a sentence, the raw timings a TTS engine gives for it, and the duration
\* of its audio file
ClockCall(sentence, raw, duration) ==
    [op |-> "clock", done |-> FALSE, sentence |-> sentence, raw |-> raw,
     dur |-> duration, words |-> InstalledWords(<<>>, duration, Raised), ticks |-> 0]

\* sentences of every shape with the timings of an engine that reports 0.1 s
\* for each word it speaks; one sentence with timings of every kind
ClockCalls ==
    \/ \E n \in 1 .. MaxWords, k \in 0 .. MaxRaw :
           \E t \in [1 .. n -> TextVocab], ws \in [1 .. k -> TtsVocab] :
               calc = ClockCall(t, Reported(ws), 3 * Unit)
    \/ \E k \in 0 .. MaxRaw - 1 : \E r \in [1 .. k -> NumericTimings] :
           calc = ClockCall(<<<<"a">>, <<"a", "b">>>>, r, 3 * Unit)

clock_vars ==
    <<chapters, tts_model, is_paused, playback_speed, pos, command, ncmds, nav_epoch,
      rtasks, pending_restart_task, current_pause_toggle_task, audio_restart_lock,
      pause_toggle_lock, producer_task, player_task, producers, players, audio_queue,
      files, procs, playback_finished_event, ui_pos, word_pos, auto_scroll_enabled,
      last_rendered_state>>

\* the _new_sentence_started handler: the word index goes back to 0 and the
\* word state of the sentence is installed
InstallSentence ==
    /\ calc.op = "clock" /\ ~calc.done
    /\ calc' = [calc EXCEPT
                   !.done = TRUE,
                   !.words = InstalledWords(calc.sentence, calc.dur,
                                 process_tts_timing_data(SpokenText(calc.sentence),
                                                         calc.raw, calc.dur))]
    /\ ui_word_idx' = 0
    /\ UNCHANGED clock_vars

\* an iteration of _word_update_loop, a multiple of 0.05 s after the last
ClockTick ==
    /\ calc.op = "clock" /\ calc.done
    /\ ~is_paused
    /\ \E k \in calc.ticks + 1 .. MaxTicks :
           /\ calc' = [calc EXCEPT !.ticks = k]
           /\ ui_word_idx' = _word_update_loop(calc.words, k * TickPeriod, ui_word_idx)
    /\ UNCHANGED clock_vars

InitClock ==
    /\ InitReader(ShortBook, TRUE, FALSE)
    /\ ClockCalls
NextClock == InstallSentence \/ ClockTick
SpecClock == InitClock /\ [][NextClock]_vars

----------------------------------------------------------------------------
(* Properties *)

\* a task is inside its stop -> drain -> start sequence
InSequence(t) ==
    rtasks[t].pc \in {"stop", "gather", "pkill", "rmfiles", "stopped", "play_wait",
                      "play_sleep"}

AllTasksDone == \A t \in DOMAIN rtasks : rtasks[t].pc = "done"

LiveProducers == {a \in Activations : ~ProducerDone(a)}
LivePlayers == {a \in Activations : ~PlayerDone(a)}

\* C1: at no time are two restart sequences (stop_and_clear_audio followed
\* by play_from_current_position) in progress at once, whichever of
\* navigation, pause/resume or speed change started each of them.
C1_RestartsSerialized ==
    \A t, u \in DOMAIN rtasks : InSequence(t) /\ InSequence(u) => t = u

\* every restart so far came from a navigation or speed key, all commands
\* are handled, every restart task has finished, not paused, TTS available
SettledAfterNavigation ==
    /\ rtasks # <<>>
    /\ \A t \in DOMAIN rtasks : rtasks[t].kind = "restart"
    /\ AllTasksDone
    /\ command.name \notin Keys
    /\ ~is_paused
    /\ tts_model

\* C2 as stated: after a burst of navigation commands has settled, exactly
\* one producer task and exactly one player task are alive, they are the
\* referenced ones, and no playback process of an earlier pair is alive.
C2_ExactlyOnePairAlive ==
    SettledAfterNavigation =>
        /\ LiveProducers = {producer_task}
        /\ LivePlayers = {player_task}
        /\ \A p \in procs : p.by = player_task

\* C2 amended: after a burst of navigation commands has settled, the pair
\* started by the last restart is the referenced one, every other producer
\* or player task has finished (the referenced ones may have finished too,
\* having run out of positions), and no playback process of an earlier
\* pair is alive.
C2_OnlyReferencedPairAlive ==
    SettledAfterNavigation =>
        /\ producer_task = Len(producers)
        /\ player_task = Len(players)
        /\ producer_task # 0
        /\ LiveProducers \subseteq {producer_task}
        /\ LivePlayers \subseteq {player_task}
        /\ \A p \in procs : p.by = player_task

C2_Witness ==
    /\ SettledAfterNavigation
    /\ Len(rtasks) >= 2
    /\ Len(producers) >= 2
    /\ LiveProducers = {producer_task}
    /\ LivePlayers = {player_task}

\* C3: a player never plays an item that a producer of another activation
\* put on the queue.
C3_NoStaleItemPlayed ==
    /\ \A a \in Activations : players[a].pc = "spawn" => players[a].cur.act = a
    /\ \A p \in procs : p.act = p.by

\* C4: once a navigation has set the reading position, only a later
\* navigation or a sentence-started event of a player started after that
\* navigation changes it.
C4_PositionHeldUntilFreshEvent ==
    [][(command.name = "_new_sentence_started" /\ pos' # pos)
           => command.act > nav_epoch]_vars

\* C5: once a pause is fully handled (paused, every toggle task finished)
\* no producer or player task runs, the queue is empty and no playback
\* process is alive.
C5_PauseFlushes ==
    (/\ is_paused
     /\ current_pause_toggle_task # 0
     /\ \A t \in DOMAIN rtasks : rtasks[t].kind = "pause" => rtasks[t].pc = "done")
        => /\ LiveProducers = {}
           /\ LivePlayers = {}
           /\ audio_queue = <<>>
           /\ procs = {}

\* C6: a producer finishes only by putting the sentinel on the queue.
C6_ProducerEndsWithSentinel ==
    [][\A a \in Activations :
          (producers[a].pc # "done" /\ producers'[a].pc = "done")
              => audio_queue' = Append(audio_queue, Sentinel(a))]_vars

\* the player a signals playback-finished in this step
Signals(a) ==
    /\ players[a].pc \in {"get", "gather"}
    /\ players'[a].pc = "done"
    /\ rtasks' = rtasks

\* C7: the player signals playback-finished only on the sentinel and only
\* when no playback process it started is alive; a player that has
\* signalled takes nothing more from the queue.
C7_FinishedAfterSentinelAndExits ==
    [][/\ \A a \in Activations :
              Signals(a) =>
                  /\ players[a].pc = "get" =>
                         (audio_queue # <<>> /\ IsSentinel(Head(audio_queue)))
                  /\ \A p \in procs : p.by # a
       /\ (playback_finished_event' # playback_finished_event)
              => \E a \in Activations : Signals(a)
       /\ \A a \in Activations :
              players[a].pc = "done" => players'[a].pc = "done"]_vars

\* C8: after a synthesis failure and the backoff the producer goes on to
\* the next position.
C8_ContinuesWithNextItem ==
    [][\A a \in Activations :
          (producers[a].pc = "backoff" /\ producers'[a].pc = "top")
              => producers'[a].pos =
                     _advance_position(chapters, producers[a].pos, "sentence", FALSE)]_vars

\* the slot k holds an item that is still queued or still being played
SlotLive(k) ==
    \/ \E i \in 1 .. Len(audio_queue) :
           ~IsSentinel(audio_queue[i]) /\ SlotOf(audio_queue[i].n) = k
    \/ \E p \in procs : SlotOf(p.n) = k

\* C9: the producer never deletes or rewrites the file of a slot whose item
\* is still queued or playing, and the cleanup after a playback never
\* deletes a file written for a later item.
C9_NoSlotLiveTwice ==
    [][/\ \A a \in Activations :
              (producers[a].pc = "top" /\ producers'[a].pc = "gen")
                  => ~SlotLive(SlotOf(producers[a].n))
       /\ \A p \in procs :
              (p \notin procs' /\ p.watched /\ files[SlotOf(p.n)] # NoFile)
                  => files[SlotOf(p.n)] = ProcId(p)]_vars

\* C10: the sentence-started event of an item is posted before the
\* playback process of that item is started.
C10_NotifiedBeforePlayback == \A p \in procs : p.notified

C10_Witness == \E p \in procs : p.notified /\ command.name # "_new_sentence_started"

----------------------------------------------------------------------------
(* The display *)

\* C11: at every render of the UI and at every tick of the word-highlight
\* clock, the displayed sentence position (ui_chapter_idx, ui_paragraph_idx,
\* ui_sentence_idx) and the word-highlight state (ui_word_idx, word timings,
\* word mapping, sentence start time) belong to the same sentence.
C11_PositionAndWordsOfOneSentence ==
    [][(UiUpdate \/ WordTick) => (word_pos' # NoPos => ui_pos' = word_pos')]_vars

\* C12: during playback (not paused, no restart or pause toggle in progress)
\* the reading position is the position of the item the player dequeued
\* most recently or of the item it dequeued just before that one.
C12_PositionWithinOneSentenceOfAudio ==
    \A a \in LivePlayer :
        (~is_paused /\ AllTasksDone /\ players[a].prev # NoPos)
            => pos \in {players[a].last, players[a].prev}

----------------------------------------------------------------------------
(* Word timings *)

Contiguous(word_timings) ==
    \A i \in 1 .. Len(word_timings) - 1 : word_timings[i].end = word_timings[i + 1].start

\* C13: whatever the raw timing list (empty, one entry, gaps, overlaps, out
\* of order, end before start), the repaired word timings are contiguous:
\* the end of each entry is the start of the next one.
C13_RepairedTimingsContiguous ==
    (calc.op = "adjust" /\ calc.done) => Contiguous(calc.out)

\* the raw list has end >= start in every entry and no overlaps
Regular(raw) ==
    /\ \A i \in 1 .. Len(raw) : raw[i].end >= raw[i].start
    /\ \A i \in 1 .. Len(raw) - 1 : raw[i].end <= raw[i + 1].start

\* the repair closed every gap and changed nothing else
GapsClosed(raw, out) ==
    /\ Len(out) = Len(raw)
    /\ \A i \in 1 .. Len(raw) :
           /\ out[i].word = raw[i].word
           /\ out[i].start = raw[i].start
           /\ out[i].end = IF i < Len(raw) THEN raw[i + 1].start ELSE raw[i].end

C15_MappingCoversEveryWord ==
    (/\ calc.op = "process" /\ calc.done
     /\ _get_highlightable_words(calc.text) # <<>>
     /\ calc.out.word_mapping # NoMapping)
        => /\ Len(calc.out.word_mapping) = Len(_get_highlightable_words(calc.text))
           /\ \A i \in 1 .. Len(calc.out.word_mapping) :
                  calc.out.word_mapping[i] \in 0 .. Len(calc.out.word_timings) - 1

C15_Witness ==
    /\ calc.op = "process" /\ calc.done
    /\ Len(_get_highlightable_words(calc.text)) = 3
    /\ Len(calc.raw) = 4
    /\ calc.out.word_mapping = <<0, 3, 3>>

\* every word gets the same time, from 0 on without gaps: one timing per
\* word of ws, in order, each per_word long
Uniform(word_timings, ws, per_word) ==
    /\ Len(word_timings) = Len(ws)
    /\ \A i \in 1 .. Len(ws) :
           /\ word_timings[i].word = ws[i]
           /\ word_timings[i].start = (i - 1) * per_word
           /\ word_timings[i].end = i * per_word

\* C16: with no raw timings and a positive total_duration D the bundle has
\* one timing per highlightable word of the text, in text order, each D/n
\* long, starting at 0, contiguous and ending at D.
C16_UniformOverKnownDuration ==
    (/\ calc.op = "process" /\ calc.done
     /\ calc.raw = <<>>
     /\ calc.dur # None /\ calc.dur > 0)
        => LET ws == _get_highlightable_words(calc.text)
               wt == calc.out.word_timings
           IN  /\ ~calc.out.raised
               /\ Len(wt) = Len(ws)
               /\ ws # <<>> =>
                      /\ \A i \in 1 .. Len(ws) :
                             /\ wt[i].word = ws[i]
                             /\ (wt[i].end - wt[i].start) * Len(ws) = calc.dur
                      /\ wt[1].start = 0
                      /\ Contiguous(wt)
                      /\ wt[Len(wt)].end = calc.dur

\* "one two three" with D = 3.0: three timings of 1.0 s
C16_Witness ==
    /\ calc.op = "process" /\ calc.done
    /\ calc.raw = <<>>
    /\ calc.dur = 3 * Unit
    /\ Len(calc.text) = 3
    /\ Len(calc.out.word_timings) = 3
    /\ \A i \in 1 .. 3 :
           calc.out.word_timings[i].end - calc.out.word_timings[i].start = Unit

\* C17: with no raw timings and no known duration (None or not positive)
\* every highlightable word of the text gets exactly 0.3 s, contiguous from
\* 0, also when the text has punctuation-only tokens.
C17_FallbackPerWord ==
    (/\ calc.op = "process" /\ calc.done
     /\ calc.raw = <<>>
     /\ (calc.dur = None \/ calc.dur <= 0))
        => Uniform(calc.out.word_timings, _get_highlightable_words(calc.text),
                   FallbackPerWord)

\* C18: process_tts_timing_data never raises to its caller, whatever the
\* text and the raw timing list (entries of the wrong arity, None or
\* non-numeric times included); when something fails inside, it returns
\* the uniform estimate of 0.3 s per highlightable word of the text.
C18_NeverRaises ==
    (calc.op = "process" /\ calc.done)
        => /\ ~calc.out.raised
           /\ TryBlockRaises(calc.raw) =>
                  LET ws == _get_highlightable_words(calc.text)
                  IN  /\ Uniform(calc.out.word_timings, ws, FallbackPerWord)
                      /\ calc.out.speech_duration = Len(ws) * FallbackPerWord
                      /\ calc.out.total_duration = Len(ws) * FallbackPerWord

C18_Witness ==
    /\ calc.op = "process" /\ calc.done
    /\ \E i \in 1 .. Len(calc.raw) : calc.raw[i].n # 3
    /\ \E i \in 1 .. Len(calc.raw) : calc.raw[i].n = 3 /\ calc.raw[i].end = Str
    /\ ~calc.out.raised
    /\ Len(calc.out.word_timings) = 2
    /\ calc.out.word_timings[2].end = 2 * FallbackPerWord

\* C19: every word timing of a returned bundle has numbers as times with
\* 0 <= start <= end, whatever the raw input (negative times, end before
\* start, overlaps, starts out of order): what the validator rejects is
\* never returned.
C19_ReturnedTimingsValid ==
    (calc.op = "process" /\ calc.done)
        => /\ validate_timing_data(calc.out)
           /\ \A i \in 1 .. Len(calc.out.word_timings) :
                  /\ IsNum(calc.out.word_timings[i].start)
                  /\ IsNum(calc.out.word_timings[i].end)

----------------------------------------------------------------------------
(* Positions *)

\* q comes before r in book order
Before(q, r) ==
    \/ q[1] < r[1]
    \/ q[1] = r[1] /\ q[2] < r[2]
    \/ q[1] = r[1] /\ q[2] = r[2] /\ q[3] < r[3]

\* the first position of S in book order; fallback when S is empty
First(S, fallback) ==
    IF S = {} THEN fallback
    ELSE CHOOSE r \in S : \A t \in S : t = r \/ Before(r, t)

\* C20: in a book whose chapters and paragraphs are all non-empty, advancing
\* from a valid position in sentence mode gives the next position in book
\* order, in paragraph mode sentence 0 of the next paragraph in book order;
\* when there is none it gives (0, 0, 0) if wrap is set and the
\* no-next-position signal otherwise.
C20_AdvanceIsSuccessor ==
    (calc.op = "advance" /\ calc.done)
        => LET later == {r \in Positions(calc.book) : Before(calc.pos, r)}
               sameParagraph(r) == r[1] = calc.pos[1] /\ r[2] = calc.pos[2]
               off == IF calc.wrap THEN <<0, 0, 0>> ELSE NoPos
           IN  calc.out =
                   IF calc.mode = "sentence" THEN First(later, off)
                   ELSE First({r \in later : ~sameParagraph(r)}, off)

C20_Witness ==
    /\ calc.op = "advance" /\ calc.done
    /\ calc.mode = "paragraph"
    /\ calc.pos[2] > 0
    /\ calc.out = <<calc.pos[1] + 1, 0, 0>>

\* the last position of S in book order; fallback when S is empty
Last(S, fallback) ==
    IF S = {} THEN fallback
    ELSE CHOOSE r \in S : \A t \in S : t = r \/ Before(t, r)

\* the last sentence of the last paragraph of the last chapter
LastPosition(ch) == Last(Positions(ch), NoPos)

\* the positions before q that lie in another paragraph
EarlierParagraphs(ch, q) ==
    {r \in Positions(ch) : Before(r, q) /\ ~(r[1] = q[1] /\ r[2] = q[2])}

HasPredecessor ==
    IF calc.mode = "sentence" THEN calc.pos # <<0, 0, 0>>
    ELSE EarlierParagraphs(calc.book, calc.pos) # {}

\* C22 as stated: for a valid position that has a valid predecessor, and
\* for either granularity, advancing from the result of a rewind gives the
\* position the rewind started from.
C22_AdvanceUndoesRewind ==
    (calc.op = "rewind" /\ calc.done /\ HasPredecessor)
        => _advance_position(calc.book, calc.out, calc.mode, FALSE) = calc.pos

\* C22, amended: for a valid position that has a valid predecessor,
\* advancing from the result of a rewind at the same granularity gives
\* sentence 0 of the paragraph of the start in paragraph mode, and the start
\* itself in sentence mode; so the round trip is the identity in sentence
\* mode, and in paragraph mode exactly on the first sentences of paragraphs.
C22_AdvanceUndoesRewindToParagraphStart ==
    (calc.op = "rewind" /\ calc.done /\ HasPredecessor)
        => _advance_position(calc.book, calc.out, calc.mode, FALSE) =
               IF calc.mode = "sentence" THEN calc.pos
               ELSE <<calc.pos[1], calc.pos[2], 0>>

C22_Witness ==
    /\ calc.op = "rewind" /\ calc.done /\ HasPredecessor
    /\ calc.mode = "paragraph"
    /\ calc.pos[3] > 0
    /\ _advance_position(calc.book, calc.out, calc.mode, FALSE) # calc.pos

----------------------------------------------------------------------------
(* Sentences and cleaned text *)

Capitals == Range(AsciiUpper) \cup {"Eacute"}

\* the sentences have a boundary just after character i of the paragraph
BoundaryAfter(paragraph, sentences, i) ==
    \E k \in 1 .. Len(sentences) - 1 :
        DeleteWhitespace(SubSeq(paragraph, 1, i)) =
            DeleteWhitespace(Concat(SubSeq(sentences, 1, k)))

\* character i of the paragraph is the period of a recognized abbreviation
\* or of a single capital-letter initial that a space and a capital follow
ProtectedPeriod(paragraph, i) ==
    \/ AbbreviationPeriod(paragraph, i, abbreviations, FALSE)
    \/ /\ paragraph[i] = "."
       /\ i >= 2 /\ i + 2 <= Len(paragraph)
       /\ paragraph[i - 1] \in Capitals
       /\ i = 2 \/ paragraph[i - 2] \notin WordChars
       /\ paragraph[i + 1] = " "
       /\ paragraph[i + 2] \in Capitals

\* C23: the sentence splitter places no sentence boundary just after the
\* period of a recognized abbreviation, nor after the period of a single
\* capital-letter initial that a space and a capital letter follow; "Mr.
\* Smith went home. He was tired." gives exactly two sentences, the first
\* being "Mr. Smith went home.".
C23_NoSplitAfterProtectedPeriod ==
    (calc.op = "split" /\ calc.done)
        => /\ \A i \in 1 .. Len(calc.text) :
                  ProtectedPeriod(calc.text, i)
                      => ~BoundaryAfter(calc.text, calc.out, i)
           /\ calc.text = MrSmith
                  => /\ Len(calc.out) = 2
                     /\ calc.out[1] = SubSeq(MrSmith, 1, 20)

\* character i of the paragraph is a '.', '!' or '?' that whitespace
\* follows and that is not protected
SplitPoint(paragraph, i) ==
    /\ paragraph[i] \in {".", "!", "?"}
    /\ i < Len(paragraph) /\ paragraph[i + 1] \in Whitespace
    /\ ~AbbreviationPeriod(paragraph, i, abbreviations, TRUE)
    /\ ~InitialPeriod(paragraph, i)

\* the sentences are non-empty pieces of the paragraph that, in order, give
\* the paragraph back but for whitespace; the paragraph is cut after every
\* split point that has text after it, and nowhere else
SplitsAtSplitPoints(paragraph, sentences) ==
    /\ sentences # <<>>
    /\ \A k \in 1 .. Len(sentences) :
           sentences[k] # <<>> /\ Contains(paragraph, sentences[k])
    /\ DeleteWhitespace(Concat(sentences)) = DeleteWhitespace(paragraph)
    /\ \A i \in 1 .. Len(paragraph) :
           (SplitPoint(paragraph, i) /\ \E j \in i + 1 .. Len(paragraph) :
                                            paragraph[j] \notin Whitespace)
               <=> BoundaryAfter(paragraph, sentences, i) /\ paragraph[i] \notin Whitespace

\* C24 as stated: for every paragraph the splitter cuts at every '.', '!'
\* or '?' that whitespace follows and that is not protected, keeps the mark
\* with the sentence before it, restores the protected periods and returns
\* only non-empty strings, so that the sentences in order give the paragraph
\* back but for the whitespace at the cuts.
C24_SplitsAtDelimiters ==
    (calc.op = "split" /\ calc.done) => SplitsAtSplitPoints(calc.text, calc.out)

\* C24, amended: the same, for every non-empty paragraph that does not
\* contain the text of the placeholder.
C24_SplitsAtDelimitersWithoutPlaceholder ==
    (/\ calc.op = "split" /\ calc.done
     /\ calc.text # <<>>
     /\ \A i \in 1 .. Len(calc.text) : calc.text[i] # placeholder)
        => SplitsAtSplitPoints(calc.text, calc.out)

C24_Witness ==
    /\ calc.op = "split" /\ calc.done
    /\ \A i \in 1 .. Len(calc.text) : calc.text[i] # placeholder
    /\ \E i \in 1 .. Len(calc.text) : AbbreviationPeriod(calc.text, i, abbreviations, TRUE)
    /\ Len(calc.out) = 2
    /\ calc.out[1][Len(calc.out[1])] = "!"

\* C25: cleaning a cleaned text changes nothing:
\* clean_tts_text(clean_tts_text(x)) = clean_tts_text(x) for every text x.
C25_CleaningIdempotent ==
    (calc.op = "clean" /\ calc.done) => calc.again = calc.out

\* the alphanumeric characters of each token that has one, in order
AlnumTokens(text) ==
    LET alnum(token) ==
            SelectSeq(token, LAMBDA ch : ch \in AsciiAlnum \cup {"eacute", "Eacute"})
        tokens == Tokens(text, <<>>)
    IN  SelectSeq([k \in 1 .. Len(tokens) |-> alnum(tokens[k])],
                  LAMBDA token : token # <<>>)

\* C26: cleaning keeps the number and the order of the tokens that hold an
\* alphanumeric character: the cleaned text has as many of them as the
\* text, and each holds the alphanumeric characters of the token it comes
\* from.
C26_CleaningKeepsWords ==
    (calc.op = "clean" /\ calc.done) => AlnumTokens(calc.out) = AlnumTokens(calc.text)

C26_Witness ==
    /\ calc.op = "clean" /\ calc.done
    /\ Len(AlnumTokens(calc.text)) = 2
    /\ Len(Tokens(calc.text, <<>>)) = 3
    /\ Len(Tokens(calc.out, <<>>)) = 2

\* C27: the timing layer and the display use the same word filter: a token
\* of a sentence counts as a word for the timings exactly when the display
\* counts it, so both number the words of the sentence alike.
C27_SameWordFilter ==
    (calc.op = "process" /\ calc.done)
        => /\ \A k \in 1 .. Len(calc.text) :
                  strip(calc.text[k]) # <<>> <=> _should_token_be_highlighted(calc.text[k])
           /\ Len(_get_highlightable_words(calc.text)) =
                  Len(SelectSeq(calc.text, _should_token_be_highlighted))

----------------------------------------------------------------------------
(* Text-only mode *)

\* C28: when the TTS backend failed to initialize at startup (initialize_tts
\* has cleared tts_model and set is_paused), the reader stays paused, and
\* whatever pause, navigation and speed commands it handles, no producer
\* task and no player task is ever started.
C28_TextOnlyStartsNoAudio ==
    ~tts_model => /\ is_paused
                  /\ producers = <<>> /\ players = <<>>
                  /\ producer_task = 0 /\ player_task = 0
                  /\ audio_queue = <<>> /\ procs = {}

C28_Witness ==
    /\ ~tts_model
    /\ ncmds = MaxCmds
    /\ pos # <<0, 0, 0>>
    /\ playback_speed > 0
    /\ command = NoCommand
    /\ \A t \in DOMAIN rtasks : rtasks[t].pc = "done"

----------------------------------------------------------------------------
(* Saved progress *)

\* C29: validate_and_set_progress returns the saved position (c, p, s) only
\* if c, p and s are not negative, paragraph p exists in chapter c and s is
\* less than the number of sentences the sentence splitter makes of that
\* paragraph; otherwise it returns (0, 0, 0).
C29_ProgressValidated ==
    (calc.op = "validate" /\ calc.done)
        => calc.out =
               IF /\ calc.c >= 0 /\ calc.p >= 0 /\ calc.s >= 0
                  /\ calc.c < Len(calc.book)
                  /\ calc.p < Len(calc.book[calc.c + 1])
                  /\ calc.s < Len(split_into_sentences(calc.book[calc.c + 1][calc.p + 1]))
               THEN <<calc.c, calc.p, calc.s>>
               ELSE <<0, 0, 0>>

----------------------------------------------------------------------------
(* The order of the queue *)

\* The sentence splitter returns a sentence that is only an abbreviation as
\* the last sentence of a paragraph or not at all: it protects the period of
\* such a sentence, so it cuts nothing after it, and the producer finds no
\* fragment to merge with a following sentence.  Books hold no "a" before
\* the last sentence of a paragraph for this reason.
FragmentOnlyLast ==
    (calc.op = "split" /\ calc.done)
        => \A k \in 1 .. Len(calc.out) - 1 : ~is_abbrev_fragment(calc.out[k])

\* the item that activation a puts on the queue in this step
Enqueued(a) == [act |-> a, n |-> producers[a].n, pos |-> producers[a].pos]

\* C30: within one producer activation the positions of the items put on the
\* queue increase strictly, so no position is put twice, also when the
\* synthesis of a sentence failed and is tried again; after a merge of an
\* abbreviation-only fragment with the sentence after it the producer is
\* past that sentence, which is not put on the queue as an item of its own.
C30_EnqueuedInOrder ==
    [][\A a \in Activations :
          /\ (producers[a].pc = "put" /\ audio_queue' = Append(audio_queue, Enqueued(a)))
                 => \/ producers'[a].pc = "fin"
                    \/ /\ Before(producers[a].pos, producers'[a].pos)
                       /\ Merged(chapters, producers[a].pos)
                              => Before(_advance_position(chapters, producers[a].pos,
                                                          "sentence", FALSE),
                                        producers'[a].pos)
          /\ (audio_queue' # audio_queue /\ Len(audio_queue') > Len(audio_queue)
                 /\ audio_queue'[Len(audio_queue')].act = a
                 /\ ~IsSentinel(audio_queue'[Len(audio_queue')]))
                 => producers[a].pc = "put" /\ audio_queue'[Len(audio_queue')] = Enqueued(a)
          /\ (producers[a].pos # NoPos /\ producers'[a].pos # NoPos)
                 => \/ producers'[a].pos = producers[a].pos
                    \/ Before(producers[a].pos, producers'[a].pos)
          /\ producers[a].pc \in {"fin", "done"} => producers'[a].pc \in {"fin", "done"}]_vars

C30_Witness ==
    \E i \in 1 .. Len(audio_queue) - 1 :
        /\ ~IsSentinel(audio_queue[i]) /\ ~IsSentinel(audio_queue[i + 1])
        /\ audio_queue[i].act = audio_queue[i + 1].act
        /\ SentenceAt(chapters, audio_queue[i].pos) = "f"
        /\ Before(audio_queue[i].pos, audio_queue[i + 1].pos)

\* the player of activation a takes the item at the head of the queue in
\* this step, and that item is not the sentinel
Dequeues(a) ==
    /\ players[a].pc = "get"
    /\ audio_queue # <<>>
    /\ ~IsSentinel(Head(audio_queue))
    /\ audio_queue' = Tail(audio_queue)
    /\ rtasks' = rtasks
    /\ producers' = producers

\* C31: when the player dequeues an item whose audio file does not exist or
\* whose duration is missing or not positive, it posts no sentence-started
\* event, starts no playback process, leaves the reading position as it is,
\* and is back at the dequeue for the next item.
C31_SkipsUnplayable ==
    [][\A a \in Activations :
          (/\ Dequeues(a)
           /\ \/ files[SlotOf(Head(audio_queue).n)] = NoFile
              \/ ~PositiveDuration(chapters, Head(audio_queue).pos))
              => /\ command' = command
                 /\ procs' = procs
                 /\ pos' = pos
                 /\ players' = players
                 /\ players'[a].pc = "get"]_vars

\* the player has announced the sentence after one without a duration right
\* after the sentence before it: the item in between was skipped
C31_Witness ==
    \E a \in Activations :
        /\ players[a].prev # NoPos
        /\ players[a].last # NoPos
        /\ SentenceAt(chapters, _advance_position(chapters, players[a].prev,
                                                  "sentence", FALSE)) = "u"
        /\ Before(_advance_position(chapters, players[a].prev, "sentence", FALSE),
                  players[a].last)

\* stop_and_clear_audio of task t has returned and the task has not gone on
\* to play_from_current_position
StopReturned(t) == rtasks[t].pc = "stopped"

\* C32: when stop_and_clear_audio has returned, reader.producer_task and
\* reader.player_task are None, the audio queue is empty and no playback
\* process is tracked in reader.playback_processes or still alive.
C32_StoppedAndCleared ==
    \A t \in DOMAIN rtasks :
        StopReturned(t) => /\ producer_task = 0
                           /\ player_task = 0
                           /\ audio_queue = <<>>
                           /\ procs = {}

\* C33: while the reader is paused, the reading position changes only when
\* the main loop handles a navigation command, and the sentence whose words
\* are being highlighted changes not at all: a sentence-started event that
\* the main loop handles while paused moves neither.
C33_PausedPositionHeld ==
    [][is_paused => /\ pos' # pos => command.name = "next_sentence"
                    /\ word_pos' = word_pos]_vars

\* C34: no command is lost: a command (a key command or a sentence-started
\* event) is put into reader.command only when the main loop has taken the
\* command before it, so that every command posted is handled once.
C34_NoCommandOverwritten ==
    [][(command' # command /\ command' # NoCommand) => command = NoCommand]_vars

ScrollCommands == {"scroll_up", "wheel_scroll_up", "scroll_down", "wheel_scroll_down",
                   "scroll_page_up", "scroll_page_down"}

\* C35: when the main loop handles a scroll command, the reading position
\* (chapter_idx, paragraph_idx, sentence_idx) stays as it is and no restart
\* or pause task is created.
C35_ScrollKeepsPosition ==
    [][(command.name \in ScrollCommands /\ command' = NoCommand)
          => (pos' = pos /\ rtasks' = rtasks)]_vars

----------------------------------------------------------------------------
(* The word-highlight clock *)

\* the words that ui.get_visible_content counts in a sentence on display
DisplayedWords(sentence) == SelectSeq(sentence, _should_token_be_highlighted)

\* C36: while a sentence is displayed and its own word state is installed,
\* ui_word_idx is an index into the highlightable words that the display
\* finds in the sentence: 0 <= ui_word_idx < their number, and 0 when the
\* sentence has none.
C36_WordIndexValid ==
    (calc.op = "clock" /\ calc.done)
        => /\ ui_word_idx >= 0
           /\ ui_word_idx < Max(1, Len(DisplayedWords(calc.sentence)))

\* C37: within one sentence the highlighted word never moves backward: from
\* one iteration of the word-highlight clock to the next, with more playback
\* time passed, ui_word_idx does not decrease, whatever timing bundle
\* process_tts_timing_data returned for the sentence.
C37_WordNeverMovesBackward ==
    [][(calc.op = "clock" /\ calc.done /\ calc'.ticks > calc.ticks)
          => ui_word_idx' >= ui_word_idx]_vars

----------------------------------------------------------------------------
(* Positions in books with blank paragraphs and empty chapters *)

\* paragraph p of chapter c has a sentence that is not blank
HasText(ch, c, p) ==
    \E s \in 0 .. NumSentences(ch, c, p) - 1 : SentenceAt(ch, <<c, p, s>>) # "b"

\* C38: advance skips the paragraphs without a sentence: the position it
\* returns is never inside a paragraph that has no sentence with text, in
\* books with empty or whitespace-only paragraphs too.
C38_AdvanceSkipsBlankParagraphs ==
    (calc.op = "advance" /\ calc.done /\ calc.out # NoPos)
        => HasText(calc.book, calc.out[1], calc.out[2])

----------------------------------------------------------------------------
(* The mapping of original words to timing entries *)

\* the sanitized words of a mapping call
OrigSanitized == [i \in 1 .. Len(calc.orig) |-> _sanitize_word(calc.orig[i])]
TtsSanitized == [i \in 1 .. Len(calc.tts) |-> _sanitize_word(calc.tts[i].word)]

\* the earliest of the highest-scoring entries among the five from the cursor
\* k on; None when none of them scores above 0
BestInWindow(o, tts, k) ==
    LET window == {j \in k .. Len(tts) - 1 : j < k + 5}
        score(j) == MatchScore(o, tts[j + 1])
        tops == {j \in window : score(j) > 0 /\ \A h \in window : score(h) <= score(j)}
    IN  IF tops = {} THEN None ELSE CHOOSE j \in tops : \A h \in tops : j <= h

\* the entries of m from original word i on follow the rule of the search
\* window, the cursor being k; with lastWhenExhausted, a word met when the
\* cursor is past the last entry maps to the last entry instead
RECURSIVE FollowsWindowRule(_, _, _, _, _, _)
FollowsWindowRule(orig, tts, m, i, k, lastWhenExhausted) ==
    IF i >= Len(orig) THEN TRUE
    ELSE IF orig[i + 1] = <<>>
         THEN FollowsWindowRule(orig, tts, m, i + 1, k, lastWhenExhausted)
    ELSE IF lastWhenExhausted /\ k >= Len(tts)
         THEN /\ m[i + 1] = Len(tts) - 1
              /\ FollowsWindowRule(orig, tts, m, i + 1, k, lastWhenExhausted)
    ELSE LET best == BestInWindow(orig[i + 1], tts, k)
         IN  IF best = None
             THEN /\ m[i + 1] = k
                  /\ FollowsWindowRule(orig, tts, m, i + 1, k + 1, lastWhenExhausted)
             ELSE /\ m[i + 1] = best
                  /\ FollowsWindowRule(orig, tts, m, i + 1,
                                       IF best <= k + 2 THEN best + 1 ELSE k,
                                       lastWhenExhausted)

\* C40 as stated: every original word whose sanitized form is not empty is
\* mapped to the highest-scoring of the up to five timing entries from the
\* cursor on, the earliest one on a tie; the cursor moves past the match only
\* when the match is within two entries of it; when no entry scores above 0
\* the word is mapped to the cursor and the cursor moves on by one.
C40_MapsToBestInWindow ==
    (calc.op = "map" /\ calc.done)
        => /\ Len(calc.out) = Len(calc.orig)
           /\ FollowsWindowRule(OrigSanitized, TtsSanitized, calc.out, 0, 0, FALSE)

\* C40, amended: the same rule while the cursor is inside the timing list;
\* a word met after the cursor has passed the last entry is mapped to the
\* last entry and the cursor stays; and when the two lists have equally
\* many words with the same sanitized forms, every word is mapped to the
\* entry of its own index.
C40_MapsToBestInWindowOrLast ==
    (calc.op = "map" /\ calc.done)
        => /\ Len(calc.out) = Len(calc.orig)
           /\ IF OrigSanitized = TtsSanitized
              THEN \A i \in 1 .. Len(calc.orig) : calc.out[i] = i - 1
              ELSE FollowsWindowRule(OrigSanitized, TtsSanitized, calc.out, 0, 0, TRUE)

\* an exact match lies just outside the window of the first word, which is
\* mapped to the cursor; the second word finds its match three entries
\* ahead of the cursor
C40_Witness ==
    /\ calc.op = "map" /\ calc.done
    /\ Len(calc.orig) = 2 /\ Len(calc.tts) = 6
    /\ OrigSanitized[1] = TtsSanitized[6]
    /\ \A j \in 1 .. 5 : MatchScore(OrigSanitized[1], TtsSanitized[j]) = 0
    /\ calc.out[1] = 0
    /\ calc.out[2] = 4

====
